---- MODULE Spec2Model ----
(***************************************************************************)
(* A model of the get-llm-chat conversation exporter.                      *)
(*                                                                         *)
(*  - SpecOrch    : IntelligentParser.parse, the multi-strategy fallback   *)
(*                  chain with per-strategy timeouts (Promise.race).       *)
(*  - SpecExtract : one call of an HTML parser (the fetch handler's, the   *)
(*                  Puppeteer handler's, the client's) on one page.        *)
(*  - SpecHandler : one request to the /api/parse-conversation handler.    *)
(*  - SpecExport  : one call of App.handleExport.                          *)
(*  - SpecBrowser : one call of fetchWithPuppeteer, statement by statement.*)
(*  - SpecRank    : StrategyOptimizer, outcomes recorded and strategies    *)
(*                  ranked for one platform.                               *)
(*  - SpecRules   : CommunityRulesManager, rules added, refreshed, looked  *)
(*                  up.                                                    *)
(*  - SpecDetect  : calls of validateChatURL, detectPlatform,              *)
(*                  extractChatId and PlatformDetector.detect.             *)
(*  - SpecGen     : one conversation through JSONGenerator (and            *)
(*                  JSON.parse) or CSVGenerator.                           *)
(*  - SpecContent : extractMessageRole or extractMessageContent on one     *)
(*                  message container with code elements.                  *)
(*  - SpecForm    : the export form, its change, blur and submit events    *)
(*                  and the runs of App.handleExport they start.           *)
(***************************************************************************)
EXTENDS Integers, Sequences, FiniteSets, TLC

VARIABLES
    \* ---- IntelligentParser.parse (one request) ----
    ourl,        \* the url argument of parse
    ophase,      \* "Idle" | "Trying" | "Validated" | "Unsupported" | "AllStrategiesFailed"
    oplatform,   \* the detected platform, "none" before detection
    order,       \* the list the for-loop iterates: [optimalStrategy, ...this.strategies]
    attempts,    \* the finished attempts, in order: [strategy, outcome]
    running,     \* positions in order whose strategy.method(url) promise is still pending
    outcomeLog,  \* what recordSuccess / recordFailure were told, in order
    oresult,     \* the Conversation parse returned, NoResult otherwise
    thrown,      \* how many times parse threw 'All parsing strategies failed'
    errors,      \* the errors array of the documented loop: one entry per catch
    failure,     \* what the thrown Error carries about the attempts
    \* ---- one call of an HTML parser ----
    xvariant,    \* which parser: "api" | "puppeteer" | "client"
    xdoc,        \* the page handed to it
    xphase,      \* "input" | "done"
    xresult,     \* what the call returned or threw
    \* ---- one request to the /api/parse-conversation handler ----
    hvariant,    \* which handler is deployed: "api" (fetch) | "puppeteer"
    hmethod,     \* req.method
    hurl,        \* req.body.url
    hbody,       \* req.body: "object" | "undefined"
    hphase,      \* "received" | "fetching" | "responded" | "threw"
    hnetwork,    \* the network activity the handler started, in order
    hresponses,  \* the responses the handler sent, in order
    \* ---- one call of App.handleExport ----
    eurl,        \* the url argument
    ephase,      \* "idle" | "parsing" | "generating" | "downloading" | "finally" | "ended"
    isExporting, \* the isExporting state of App
    exportError, \* the exportError state of App
    eparsed,     \* what ApiService.parseConversation returned or threw
    generated,   \* the conversations handed to generator.generate, in order
    downloads,   \* the titles of the files downloadFile was given, in order
    \* ---- one call of fetchWithPuppeteer ----
    bpc,         \* the statement the call is at
    browser,     \* the browser variable: "undefined" | "open" | "closed"
    bdev,        \* process.env.NODE_ENV === 'development'
    bi,          \* the counter of the stabilisation loop
    previousMessageCount,
    stableCount,
    bselector,   \* the index of the expand selector being handled
    bcaught,     \* the errors the inner catch blocks swallowed
    bpending,    \* how the try statement completes: "none" | "return" | "throw"
    boutcome,    \* how the call ended: "none" | "html" | "thrown"
    bchecks,     \* the message counts of the stabilisation loop: the initial 0 and
                 \* the counts read by the checks, the last three of them
    bfiles,      \* what fs.writeFileSync has written to the working directory
    \* ---- StrategyOptimizer, for one platform ----
    rstats,      \* metrics.strategies: per strategy its name, outcomes, speed, costEfficiency
    rranked,     \* the ranking of the last selectOptimalStrategy, <<>> once outcomes were added
    \* ---- CommunityRulesManager ----
    rules,       \* the rules map: platform -> the rules held, in insertion order
    bestFor,     \* the platform of the last getBestRule, "none" once rules were added
    best,        \* what that getBestRule returned
    dropped,     \* how many rules the last addRule / updateRules did not store
    \* ---- calls of validateChatURL / detectPlatform / extractChatId ----
    dinput,      \* the url argument of the last call
    dcall,       \* which function was called, "none" before the first call
    dreturned,   \* what the call returned
    dprev,       \* the host in the url of the call before it
    lastIndex,   \* the lastIndex property of each pattern of PLATFORMS
    \* ---- one conversation handed to JSONGenerator / CSVGenerator ----
    gconversation, \* the conversation argument of generate
    goptions,    \* the options argument of generate
    gphase,      \* "input" | "json" | "parsed" | "csv"
    jsonOutput,  \* what JSONGenerator.generate returned, <<>> before
    jsonParsed,  \* what JSON.parse made of it, <<>> before
    csvRows,     \* the row arrays CSVGenerator.generate built, header first
    csvOutput,   \* what CSVGenerator.generate returned
    \* ---- one message container handed to extractMessageRole / extractMessageContent ----
    cvariant,    \* which parser: "api" | "puppeteer" | "client"
    celement,    \* the container
    cphase,      \* "input" | "role" | "content"
    crole,       \* what extractMessageRole returned
    ccontent,    \* what extractMessageContent returned
    \* ---- the export form (ExportForm) and the runs of App.handleExport it starts ----
    furl,        \* url, the text of the URL field
    urlValidation,\* the stored URLValidationResult, or null
    hasUrlBeenValidated,\* the state of that name
    isLoading,   \* App's isExporting, handed to the form as isLoading
    ferror,      \* App's exportError
    inflight,    \* the runs of handleExport that have not ended
    exported,    \* the urls onExport was called with
    fevents      \* the last events, oldest first

orchVars == <<ourl, ophase, oplatform, order, attempts, running, outcomeLog, oresult, thrown,
              errors, failure>>

extractVars == <<xvariant, xdoc, xphase, xresult>>

handlerVars == <<hvariant, hmethod, hurl, hbody, hphase, hnetwork, hresponses>>

exportVars == <<eurl, ephase, isExporting, exportError, eparsed, generated, downloads>>

browserVars == <<bpc, browser, bdev, bi, previousMessageCount, stableCount, bselector,
                 bcaught, bpending, boutcome, bchecks, bfiles>>

rankVars == <<rstats, rranked>>

rulesVars == <<rules, bestFor, best, dropped>>

detectVars == <<dinput, dcall, dreturned, dprev, lastIndex>>

genVars == <<gconversation, goptions, gphase, jsonOutput, jsonParsed, csvRows, csvOutput>>

contentVars == <<cvariant, celement, cphase, crole, ccontent>>

formVars == <<furl, urlValidation, hasUrlBeenValidated, isLoading, ferror, inflight, exported, fevents>>

vars == <<orchVars, extractVars, handlerVars, exportVars, browserVars, rankVars, rulesVars, detectVars, genVars, contentVars, formVars>>

\* What the actions of one part leave alone: the variables of the other parts.
exceptOrch == <<extractVars, handlerVars, exportVars, browserVars, rankVars, rulesVars, detectVars, genVars, contentVars, formVars>>
exceptExtract == <<orchVars, handlerVars, exportVars, browserVars, rankVars, rulesVars, detectVars, genVars, contentVars, formVars>>
exceptHandler == <<orchVars, extractVars, exportVars, browserVars, rankVars, rulesVars, detectVars, genVars, contentVars, formVars>>
exceptExport == <<orchVars, extractVars, handlerVars, browserVars, rankVars, rulesVars, detectVars, genVars, contentVars, formVars>>
exceptBrowser == <<orchVars, extractVars, handlerVars, exportVars, rankVars, rulesVars, detectVars, genVars, contentVars, formVars>>
exceptRank == <<orchVars, extractVars, handlerVars, exportVars, browserVars, rulesVars, detectVars, genVars, contentVars, formVars>>
exceptRules == <<orchVars, extractVars, handlerVars, exportVars, browserVars, rankVars, detectVars, genVars, contentVars, formVars>>
exceptDetect == <<orchVars, extractVars, handlerVars, exportVars, browserVars, rankVars, rulesVars, genVars, contentVars, formVars>>
exceptGen == <<orchVars, extractVars, handlerVars, exportVars, browserVars, rankVars, rulesVars, detectVars, contentVars, formVars>>
exceptContent == <<orchVars, extractVars, handlerVars, exportVars, browserVars, rankVars, rulesVars, detectVars, genVars, formVars>>
exceptForm == <<orchVars, extractVars, handlerVars, exportVars, browserVars, rankVars, rulesVars, detectVars, genVars, contentVars>>

----------------------------------------------------------------------------
(* Generic helpers *)

Range(s) == {s[i] : i \in 1..Len(s)}

SeqsUpTo(S, n) == UNION {[1..k -> S] : k \in 0..n}

----------------------------------------------------------------------------
(* URLs.  A URL string is modelled by its parts, in order of appearance:   *)
(* scheme, host, path prefix, the opaque id (a sequence of characters) and *)
(* whatever follows the id (a sequence of tokens).  The string is their    *)
(* concatenation.                                                          *)

MaxIdLen == 2

Schemes == {"https://", "http://"}
Hosts == {"chatgpt.com", "chat.openai.com", "claude.ai", "gemini.google.com",
          "www.perplexity.ai", "example.com"}
Paths == {"/share/", "/search/", "/chat/"}
IdChars == {"a", "z"}
Tails == {<<>>, <<"?", "chatgpt.com">>}

Urls == [scheme : Schemes, host : Hosts, path : Paths,
         id : SeqsUpTo(IdChars, MaxIdLen), tail : Tails]

\* The characters of the classes the platform patterns use.
HexChars == {"a", "b", "c", "d", "e", "f",
             "0", "1", "2", "3", "4", "5", "6", "7", "8", "9"}
HexDashChars == HexChars \cup {"-"}

\* What follows the literal prefix of a pattern: the id and the tail.
Rest(u) == u.id \o u.tail

\* ^<prefix>[class]+$ : the rest is non-empty and every character is in the class.
MatchesClassPlus(u, class) == Len(Rest(u)) > 0 /\ \A i \in 1..Len(Rest(u)) : Rest(u)[i] \in class

\* ^<prefix>.+$ : the rest is non-empty (no token of the model is a line break).
MatchesAnyPlus(u) == Len(Rest(u)) > 0

HasPrefix(u, scheme, host, path) == u.scheme = scheme /\ u.host = host /\ u.path = path

\* url.includes(needle), for a needle that is a host name.
Includes(u, needle) == u.host = needle \/ needle \in Range(u.tail)

----------------------------------------------------------------------------
(* PlatformDetector.detect *)

DetectorPlatforms == <<"chatgpt", "claude", "gemini", "perplexity">>

DetectorPattern(p, u) ==
    CASE p = "chatgpt"    -> HasPrefix(u, "https://", "chatgpt.com", "/share/")
                             /\ MatchesClassPlus(u, HexDashChars)
      [] p = "claude"     -> HasPrefix(u, "https://", "claude.ai", "/share/")
                             /\ MatchesClassPlus(u, HexDashChars)
      [] p = "gemini"     -> HasPrefix(u, "https://", "gemini.google.com", "/share/")
                             /\ MatchesClassPlus(u, HexChars)
      [] p = "perplexity" -> HasPrefix(u, "https://", "www.perplexity.ai", "/search/")
                             /\ MatchesAnyPlus(u)

\* The first pattern, in declaration order, that matches; "none" stands for
\* the thrown Error('Unsupported platform').
RECURSIVE DetectFrom(_, _)
DetectFrom(i, u) ==
    IF i > Len(DetectorPlatforms) THEN "none"
    ELSE IF DetectorPattern(DetectorPlatforms[i], u) THEN DetectorPlatforms[i]
    ELSE DetectFrom(i + 1, u)

\* A detector that falls back to a default platform instead of failing.
Detect_DefaultPlatform(u) == IF DetectFrom(1, u) = "none" THEN "chatgpt" ELSE DetectFrom(1, u)

Detect(u) == DetectFrom(1, u)

----------------------------------------------------------------------------
(* IntelligentParser *)

Strategies == <<"fast-html", "api-discovery", "browser-render", "ai-extraction",
                "community-rules">>

StrategyNames == Range(Strategies)

\* What a strategy's method can resolve with: a Conversation-shaped value.
MaxResultMessages == 1

ResultMessages == [role : {"user", "assistant", ""}, content : {"text", "blank", "undefined"}]

StrategyResults == [title : {"", "t"}, messages : SeqsUpTo(ResultMessages, MaxResultMessages)]

NoResult == [title |-> "", messages |-> <<>>]

\* result.messages.length > 0 && result.title && result.messages.every(m => m.content && m.role)
\* (m.content is the content object: truthy unless absent, whatever its text).
ValidateResult(r) ==
    /\ Len(r.messages) > 0
    /\ r.title # ""
    /\ \A i \in 1..Len(r.messages) :
          r.messages[i].content # "undefined" /\ r.messages[i].role # ""

\* [optimalStrategy, ...this.strategies]
LoopOrder(optimal) == <<optimal>> \o Strategies

\* The position the loop is at while an attempt is awaited.
Current == Len(attempts) + 1

\* The reasons the Error thrown after the loop carries: none in
\* new Error('All parsing strategies failed'); the messages of the errors array
\* in the documented `All parsing strategies failed: ${errors.map(...)}`.
ThrownReasons(caught) == {<<>>, caught}

\* After a failed attempt the loop goes on without suspending: it starts the next
\* strategy's method, or leaves the loop and throws.
Advance(newAttempts, stillRunning) ==
    IF Len(newAttempts) < Len(order)
    THEN /\ ophase' = "Trying"
         /\ running' = stillRunning \cup {Len(newAttempts) + 1}
         /\ thrown' = thrown
         /\ failure' = failure
    ELSE /\ ophase' = "AllStrategiesFailed"
         /\ running' = stillRunning
         /\ thrown' = thrown + 1
         /\ failure' \in ThrownReasons(errors')

\* parse(url): detectPlatform throws for an unknown platform, before the loop;
\* otherwise the optimal strategy is selected and the first attempt starts.
ParseStart ==
    /\ ophase = "Idle"
    /\ IF Detect(ourl) = "none"
       THEN /\ ophase' = "Unsupported"
            /\ UNCHANGED <<oplatform, order, running>>
       ELSE \E optimal \in StrategyNames :
            /\ oplatform' = Detect(ourl)
            /\ order' = LoopOrder(optimal)
            /\ ophase' = "Trying"
            /\ running' = {1}
    /\ UNCHANGED <<ourl, attempts, outcomeLog, oresult, thrown, errors, failure>>
    /\ UNCHANGED exceptOrch

\* The awaited method resolves with a result r.  If validateResult accepts it the
\* success is recorded and parse returns it; otherwise nothing is recorded and the
\* loop goes on.
AttemptResolves ==
    /\ ophase = "Trying"
    /\ Current \in running
    /\ \E r \in StrategyResults :
         IF ValidateResult(r)
         THEN /\ oresult' = r
              /\ attempts' = Append(attempts, [strategy |-> order[Current], outcome |-> "valid"])
              /\ outcomeLog' = Append(outcomeLog, [platform |-> oplatform,
                                        strategy |-> order[Current], succeeded |-> TRUE])
              /\ running' = running \ {Current}
              /\ ophase' = "Validated"
              /\ thrown' = thrown
              /\ UNCHANGED <<errors, failure>>
         ELSE /\ attempts' = Append(attempts, [strategy |-> order[Current], outcome |-> "invalid"])
              /\ errors' = errors
              /\ Advance(attempts', running \ {Current})
              /\ UNCHANGED <<outcomeLog, oresult>>
    /\ UNCHANGED <<ourl, oplatform, order>>
    /\ UNCHANGED exceptOrch

\* A loop without the try/catch: the first rejection ends the request.
AttemptThrows_Propagates ==
    /\ ophase = "Trying"
    /\ Current \in running
    /\ attempts' = Append(attempts, [strategy |-> order[Current], outcome |-> "threw"])
    /\ outcomeLog' = Append(outcomeLog, [platform |-> oplatform,
                                          strategy |-> order[Current], succeeded |-> FALSE])
    /\ ophase' = "AllStrategiesFailed"
    /\ running' = running \ {Current}
    /\ thrown' = thrown + 1
    /\ UNCHANGED <<ourl, oplatform, order, oresult, errors, failure>>
    /\ UNCHANGED exceptOrch

\* The awaited method rejects: the catch records the failure and the loop goes on.
AttemptThrows ==
    /\ ophase = "Trying"
    /\ Current \in running
    /\ attempts' = Append(attempts, [strategy |-> order[Current], outcome |-> "threw"])
    /\ outcomeLog' = Append(outcomeLog, [platform |-> oplatform,
                                          strategy |-> order[Current], succeeded |-> FALSE])
    /\ errors' = Append(errors, [strategy |-> order[Current], reason |-> "threw"])
    /\ Advance(attempts', running \ {Current})
    /\ UNCHANGED <<ourl, oplatform, order, oresult>>
    /\ UNCHANGED exceptOrch

\* The timer of Promise.race rejects first: the catch records the failure and the
\* loop goes on; the method's own promise is not cancelled and stays pending.
AttemptTimesOut ==
    /\ ophase = "Trying"
    /\ Current \in running
    /\ attempts' = Append(attempts, [strategy |-> order[Current], outcome |-> "timeout"])
    /\ outcomeLog' = Append(outcomeLog, [platform |-> oplatform,
                                          strategy |-> order[Current], succeeded |-> FALSE])
    /\ errors' = Append(errors, [strategy |-> order[Current], reason |-> "Timeout"])
    /\ Advance(attempts', running)
    /\ UNCHANGED <<ourl, oplatform, order, oresult>>
    /\ UNCHANGED exceptOrch

\* A method that lost its race settles later; nobody awaits its result.
AbandonedSettles ==
    /\ \E i \in running :
         /\ (ophase = "Trying" => i # Current)
         /\ running' = running \ {i}
    /\ UNCHANGED <<ourl, ophase, oplatform, order, attempts, outcomeLog, oresult, thrown,
                   errors, failure>>
    /\ UNCHANGED exceptOrch



----------------------------------------------------------------------------
(* Text.  A string is a sequence of runs [s, n]: the token s repeated n     *)
(* times.  A token is one character ("a" for any visible character, " ",   *)
(* a line break) or a literal the code searches for.                        *)

Run(s, n) == [s |-> s, n |-> n]

WhitespaceTokens == {" ", "\n"}

\* The number of characters of a token.
TokenLen(s) ==
    CASE s = "window.__" -> 9
      [] s = "said:"     -> 5
      [] s = "code"      -> 4
      [] s = "You"       -> 3
      [] OTHER           -> 1

\* text.length
RECURSIVE TextLength(_)
TextLength(t) ==
    IF t = <<>> THEN 0 ELSE TokenLen(Head(t).s) * Head(t).n + TextLength(Tail(t))

IsWs(r) == r.s \in WhitespaceTokens

RECURSIVE TrimStart(_)
TrimStart(t) == IF t # <<>> /\ IsWs(Head(t)) THEN TrimStart(Tail(t)) ELSE t

RECURSIVE TrimEnd(_)
TrimEnd(t) == IF t # <<>> /\ IsWs(t[Len(t)]) THEN TrimEnd(SubSeq(t, 1, Len(t) - 1)) ELSE t

\* text.trim()
Trim(t) == TrimEnd(TrimStart(t))

\* text.replace(/\s+/g, ' '): every maximal run of whitespace becomes one space.
RECURSIVE CollapseWhitespace(_)
CollapseWhitespace(t) ==
    IF t = <<>> THEN <<>>
    ELSE IF IsWs(Head(t)) THEN <<Run(" ", 1)>> \o CollapseWhitespace(TrimStart(t))
    ELSE <<Head(t)>> \o CollapseWhitespace(Tail(t))

\* The line breaks in the whitespace at the head of t.
RECURSIVE LeadingBreaks(_)
LeadingBreaks(t) ==
    IF t = <<>> \/ ~IsWs(Head(t)) THEN 0
    ELSE (IF Head(t).s = "\n" THEN Head(t).n ELSE 0) + LeadingBreaks(Tail(t))

\* t without its head up to the last line break of the whitespace at its head.
RECURSIVE AfterLastBreak(_)
AfterLastBreak(t) == IF LeadingBreaks(t) = 0 THEN t ELSE AfterLastBreak(Tail(t))

\* text.replace(/\n\s*\n/g, '\n\n'): a line break, whitespace and a last line
\* break become two line breaks.
RECURSIVE CollapseBlankLines(_)
CollapseBlankLines(t) ==
    IF t = <<>> THEN <<>>
    ELSE IF Head(t).s = "\n" /\ LeadingBreaks(t) >= 2
         THEN <<Run("\n", 2)>> \o CollapseBlankLines(AfterLastBreak(t))
    ELSE <<Head(t)>> \o CollapseBlankLines(Tail(t))

\* text.includes(literal).  'You said:' is the tokens You, one space, said:.
TextIncludes(t, literal) ==
    IF literal = "You said:"
    THEN \E i \in 1..(Len(t) - 2) :
            t[i].s = "You" /\ t[i + 1] = Run(" ", 1) /\ t[i + 2].s = "said:"
    ELSE \E i \in 1..Len(t) : t[i].s = literal

\* text.replace(/\s+/g, ' ').replace(/\n\s*\n/g, '\n\n').trim()
CleanTextContent(t) == Trim(CollapseBlankLines(CollapseWhitespace(t)))

\* The element texts the documents of the model are built from.
EmptyText == <<>>
BlankText == <<Run(" ", 1), Run("\n", 2)>>
ShortText == <<Run("a", 3)>>
MessyText == <<Run(" ", 1), Run("a", 4), Run("\n", 2), Run(" ", 3), Run("a", 3), Run("\n", 1)>>
ScriptText == <<Run("a", 6), Run("window.__", 1), Run(" ", 1), Run("a", 2)>>
HugeText == <<Run("a", 5001)>>
SplitMarkerText == <<Run("You", 1), Run("\n", 1), Run("said:", 1), Run(" ", 1), Run("a", 4)>>

Texts == {EmptyText, BlankText, ShortText, MessyText, ScriptText, HugeText, SplitMarkerText}

----------------------------------------------------------------------------
(* Documents.  A page is its <title> and <h1> texts (Absent when it has no   *)
(* such element) and, in document order, its message containers: each a     *)
(* <div class="group w-full"> with, or without, a data-message-author-role  *)
(* attribute, holding text and, after it, <code> elements (none in the      *)
(* containers of a page of the model).                                      *)

MaxElements == 2

Absent == <<"absent">>

RoleAttrs == {"user", "assistant", "system", "none"}

Elements == [roleAttr : RoleAttrs, text : Texts, codes : {<<>>}]

\* $element.text(): the text of the container and of its descendants.
RECURSIVE CodeText(_)
CodeText(codes) == IF codes = <<>> THEN <<>> ELSE Head(codes).text \o CodeText(Tail(codes))

ElementText(e) == e.text \o CodeText(e.codes)

TitleTexts == {Absent, <<"ChatGPT">>, <<"ChatGPT", " ", "-", " ">>,
               <<" ", "ChatGPT", " ", "-", " ", "T", " ">>}
H1Texts == {Absent, <<" ", "T", " ">>}

Docs == [title : TitleTexts, h1 : H1Texts, elements : SeqsUpTo(Elements, MaxElements)]


----------------------------------------------------------------------------
(* The three HTML parsers: the fetch handler (api/parse-conversation.ts),   *)
(* the rendered-DOM handler (its Puppeteer version) and the client's        *)
(* ChatGPTParser.                                                            *)

Variants == {"api", "puppeteer", "client"}

\* extractTitle: the selectors tried, in order.
TitleSelectors == <<"title", "h1", "[data-testid=conversation-title]",
                    ".conversation-title", "meta[property=og:title]">>

\* $(selector).first() of a title selector: its text, or Absent.
TitleElement(doc, selector) ==
    CASE selector = "title" -> doc.title
      [] selector = "h1"    -> doc.h1
      [] OTHER              -> Absent

IsTitleWs(tok) == tok = " "

RECURSIVE TitleTrimStart(_)
TitleTrimStart(t) == IF t # <<>> /\ IsTitleWs(Head(t)) THEN TitleTrimStart(Tail(t)) ELSE t

RECURSIVE TitleTrimEnd(_)
TitleTrimEnd(t) ==
    IF t # <<>> /\ IsTitleWs(t[Len(t)]) THEN TitleTrimEnd(SubSeq(t, 1, Len(t) - 1)) ELSE t

TitleTrim(t) == TitleTrimEnd(TitleTrimStart(t))

\* title.replace(/^ChatGPT\s*[-|]\s*/, '')
StripChatGPTPrefix(t) ==
    IF t # <<>> /\ Head(t) = "ChatGPT"
    THEN LET afterName == TitleTrimStart(Tail(t))
         IN IF afterName # <<>> /\ Head(afterName) \in {"-", "|"}
            THEN TitleTrimStart(Tail(afterName))
            ELSE t
    ELSE t

DefaultTitle == <<"ChatGPT", " ", "Conversation">>

\* extractTitle (the same in the three parsers): the first selector with an
\* element whose text, trimmed and without the "ChatGPT - " prefix, is not empty.
RECURSIVE ExtractTitleFrom(_, _)
ExtractTitleFrom(i, doc) ==
    IF i > Len(TitleSelectors) THEN DefaultTitle
    ELSE LET el == TitleElement(doc, TitleSelectors[i])
             title == TitleTrim(el)
             cleaned == TitleTrim(StripChatGPTPrefix(title))
         IN IF el # Absent /\ title # <<>> /\ title # <<"ChatGPT">> /\ Len(cleaned) > 0
            THEN cleaned
            ELSE ExtractTitleFrom(i + 1, doc)

ExtractTitle(doc) == ExtractTitleFrom(1, doc)

\* extractMessages: the selectors tried, in order.
MessageSelectors(variant) ==
    CASE variant = "api" ->
            <<"[data-message-author-role]", ".conversation-turn", "[role=presentation]", ".group">>
      [] variant = "puppeteer" ->
            <<"article[data-testid*=conversation-turn]", "[data-message-author-role]",
              "div[data-testid*=conversation-turn]", ".group.w-full", ".group .flex.flex-col">>
      [] variant = "client" ->
            <<"[data-message-author-role]">>

\* Whether a container of the page matches a selector.
MatchesSelector(selector, e) ==
    CASE selector = "[data-message-author-role]" -> e.roleAttr # "none"
      [] selector \in {".group", ".group.w-full"} -> TRUE
      [] OTHER -> FALSE

\* $(selector): the positions of the matching containers, in document order.
Select(doc, selector) ==
    SelectSeq([i \in 1..Len(doc.elements) |-> i],
              LAMBDA i : MatchesSelector(selector, doc.elements[i]))

\* The loop without its break: the containers of the last selector.
MessageElementsFrom_NoBreak(i, selectors, doc) == Select(doc, selectors[Len(selectors)])

\* for (const selector of messageSelectors) { messageElements = $(selector);
\*   if (messageElements.length > 0) break; }
RECURSIVE MessageElementsFrom(_, _, _)
MessageElementsFrom(i, selectors, doc) ==
    IF i > Len(selectors) THEN <<>>
    ELSE IF Len(Select(doc, selectors[i])) > 0 THEN Select(doc, selectors[i])
    ELSE MessageElementsFrom(i + 1, selectors, doc)

MessageElements(variant, doc) == MessageElementsFrom(1, MessageSelectors(variant), doc)

RoleHeuristicMaxLenApi == 50
RoleHeuristicMaxLenPuppeteer == 200

\* $element.html().includes('code'): the word in the text, or a <code> tag.
HtmlIncludesCode(e) == TextIncludes(ElementText(e), "code") \/ e.codes # <<>>

\* extractMessageRole.  The containers of the model have no parent or child with
\* a role attribute and no user-message / assistant-message class.
ExtractMessageRole(variant, e) ==
    IF e.roleAttr \in {"user", "assistant", "system"} THEN e.roleAttr
    ELSE CASE variant = "api" ->
                 IF TextLength(ElementText(e)) < RoleHeuristicMaxLenApi /\ ~HtmlIncludesCode(e)
                 THEN "user" ELSE "assistant"
           [] variant = "puppeteer" ->
                 IF TextLength(ElementText(e)) < RoleHeuristicMaxLenPuppeteer
                    /\ ~TextIncludes(ElementText(e), "code")
                 THEN "user" ELSE "assistant"
           [] variant = "client" -> "assistant"

NoiseLiterals == {"window.__", "requestAnimationFrame", "__oai_", "ChatGPTLog inSign up",
                  "You said:", "ChatGPT said:"}

NoiseMaxLen == 5000

\* The rendered-DOM parser's test for script or page chrome, on the trimmed text.
LooksLikeNoise(t) ==
    \/ \E literal \in NoiseLiterals : TextIncludes(t, literal)
    \/ TextLength(t) > NoiseMaxLen

\* extractMessageContent: content.text.  The containers of the model have no
\* inner content element, so the text is the container's own.
ExtractMessageText(variant, e) ==
    CASE variant = "api" -> CleanTextContent(Trim(ElementText(e)))
      [] variant = "puppeteer" ->
            IF LooksLikeNoise(Trim(ElementText(e))) THEN <<>>
            ELSE CleanTextContent(Trim(ElementText(e)))
      [] variant = "client" -> CleanTextContent(ElementText(e))

MinMessageLen == 5
MaxMessageLen == 10000

\* An extractMessages without the test of the cleaned text.
KeepMessage_Always(variant, text) == TRUE

\* The condition under which extractMessages pushes the message.
KeepMessage(variant, text) ==
    IF variant = "puppeteer"
    THEN Trim(text) # <<>> /\ TextLength(text) > MinMessageLen /\ TextLength(text) < MaxMessageLen
    ELSE Trim(text) # <<>>

\* The message built for the container at position src (src is kept to tell
\* which container a message came from; the code's message has a fresh uuid).
MessageOf(variant, doc, src) ==
    [src |-> src,
     role |-> ExtractMessageRole(variant, doc.elements[src]),
     text |-> ExtractMessageText(variant, doc.elements[src])]

\* messages.unshift(message)
PushMessage_Unshift(messages, m) == <<m>> \o messages

\* messages.push(message)
PushMessage(messages, m) == Append(messages, m)

\* messageElements.each(...): the containers are visited in order.
RECURSIVE EachElement(_, _, _, _)
EachElement(variant, doc, elems, messages) ==
    IF elems = <<>> THEN messages
    ELSE LET m == MessageOf(variant, doc, Head(elems))
         IN EachElement(variant, doc, Tail(elems),
                        IF KeepMessage(variant, m.text) THEN PushMessage(messages, m)
                        ELSE messages)

ExtractMessages(variant, doc) == EachElement(variant, doc, MessageElements(variant, doc), <<>>)

\* ChatGPTParser.parseFromHtml's first test: the html mentions 'chatgpt',
\* 'conversation' or 'message'.  In the pages of the model only the attribute
\* name data-message-author-role does.
LooksLikeChatPage(doc) == \E i \in 1..Len(doc.elements) : doc.elements[i].roleAttr # "none"

NoConversation == [title |-> <<>>, platform |-> "none", messages |-> <<>>, messageCount |-> 0]

ErrNoMessages == "No messages found in the conversation."
ErrNotChatPage == "This does not appear to be a ChatGPT conversation page."

Thrown(message) == [ok |-> FALSE, error |-> message, conversation |-> NoConversation]

Returned(conversation) == [ok |-> TRUE, error |-> "", conversation |-> conversation]

\* What the parser returns when it found messages.
BuildConversation(variant, doc) ==
    Returned([title |-> ExtractTitle(doc),
              platform |-> "chatgpt",
              messages |-> ExtractMessages(variant, doc),
              messageCount |-> Len(ExtractMessages(variant, doc))])

\* A parser without the test messages.length === 0.
ParseConversationFromHtml_NoEmptyTest(variant, doc) ==
    IF variant = "client" /\ ~LooksLikeChatPage(doc) THEN Thrown(ErrNotChatPage)
    ELSE BuildConversation(variant, doc)

\* parseConversationFromHtml / ChatGPTParser.parseFromHtml: the Conversation, or
\* the Error thrown.
ParseConversationFromHtml(variant, doc) ==
    IF variant = "client" /\ ~LooksLikeChatPage(doc) THEN Thrown(ErrNotChatPage)
    ELSE IF Len(ExtractMessages(variant, doc)) = 0 THEN Thrown(ErrNoMessages)
    ELSE BuildConversation(variant, doc)

NoOutcome == [ok |-> FALSE, error |-> "", conversation |-> NoConversation]

\* One call of a parser on a page.
ParseHtml ==
    /\ xphase = "input"
    /\ xresult' = ParseConversationFromHtml(xvariant, xdoc)
    /\ xphase' = "done"
    /\ UNCHANGED <<xvariant, xdoc>>
    /\ UNCHANGED exceptExtract

----------------------------------------------------------------------------
(* extractMessageRole and extractMessageContent on one container that may  *)
(* hold <code> elements, inside a <pre> or not.                             *)

MinCodeLen == 10
MaxCodeBlocks == 2

CodeTexts == {<<>>, <<Run(" ", 2)>>, <<Run("a", 10)>>,
              <<Run(" ", 1), Run("a", 10), Run("\n", 1)>>, <<Run("a", 11)>>}

CodeBlocks == [inPre : BOOLEAN, text : CodeTexts]

ContentTexts == {ShortText, <<Run("a", 60)>>, <<Run("a", 200)>>,
                 <<Run("a", 3), Run(" ", 1), Run("code", 1)>>}

ContentElements ==
    [roleAttr : RoleAttrs, text : ContentTexts, codes : SeqsUpTo(CodeBlocks, MaxCodeBlocks)]

\* The <code> elements the parser visits: find('code'), or find('pre code').
CodeElements(variant, e) ==
    IF variant = "client" THEN SelectSeq(e.codes, LAMBDA c : c.inPre) ELSE e.codes

\* The test under which artifacts.push runs, on codeContent = $code.text().trim().
KeepsCode(variant, codeContent) ==
    IF variant = "client" THEN codeContent # <<>>
    ELSE codeContent # <<>> /\ TextLength(codeContent) > MinCodeLen

\* artifacts: artifacts.length > 0 ? artifacts : undefined
Artifacts(items) == [defined |-> items # <<>>, items |-> items]

\* The contents of the code artifacts, in document order.
CodeArtifacts(variant, e) ==
    LET elements == CodeElements(variant, e)
        contents == [i \in 1..Len(elements) |-> Trim(elements[i].text)]
    IN  SelectSeq(contents, LAMBDA c : KeepsCode(variant, c))

\* extractMessageContent: text and artifacts.  hasCodeBlocks is true exactly
\* when the container holds a <code> element.
ExtractMessageContent(variant, e) ==
    IF variant = "puppeteer" /\ LooksLikeNoise(Trim(ElementText(e)))
    THEN [text |-> <<>>, artifacts |-> Artifacts(<<>>)]
    ELSE [text |-> ExtractMessageText(variant, e),
          artifacts |-> Artifacts(IF e.codes # <<>> THEN CodeArtifacts(variant, e) ELSE <<>>)]

NoContent == [text |-> <<>>, artifacts |-> Artifacts(<<>>)]

ExtractRole ==
    /\ cphase = "input"
    /\ crole' = ExtractMessageRole(cvariant, celement)
    /\ cphase' = "role"
    /\ UNCHANGED <<cvariant, celement, ccontent>>
    /\ UNCHANGED exceptContent

ExtractContent ==
    /\ cphase = "input"
    /\ ccontent' = ExtractMessageContent(cvariant, celement)
    /\ cphase' = "content"
    /\ UNCHANGED <<cvariant, celement, crole>>
    /\ UNCHANGED exceptContent

----------------------------------------------------------------------------
(* PLATFORMS of the client (utils/constants): the four URL patterns, each  *)
(* anchored at both ends and case-insensitive.                             *)

Letters == {"a", "b", "c", "d", "e", "f", "g", "h", "i", "j", "k", "l", "m",
            "n", "o", "p", "q", "r", "s", "t", "u", "v", "w", "x", "y", "z",
            "A", "B", "C", "D", "E", "F", "G", "H", "I", "J", "K", "L", "M",
            "N", "O", "P", "Q", "R", "S", "T", "U", "V", "W", "X", "Y", "Z"}
Digits == {"0", "1", "2", "3", "4", "5", "6", "7", "8", "9"}

\* [a-f0-9]+ under the i flag
HexCharsI == HexChars \cup {"A", "B", "C", "D", "E", "F"}
\* [a-f0-9-]+ under the i flag
HexDashCharsI == HexCharsI \cup {"-"}
\* [a-zA-Z0-9_-]+
WordDashChars == Letters \cup Digits \cup {"_", "-"}

PlatformNames == <<"chatgpt", "claude", "gemini", "perplexity">>

PlatformPattern(p, u) ==
    CASE p = "chatgpt"    -> HasPrefix(u, "https://", "chatgpt.com", "/share/")
                             /\ MatchesClassPlus(u, HexDashCharsI)
      [] p = "claude"     -> HasPrefix(u, "https://", "claude.ai", "/share/")
                             /\ MatchesClassPlus(u, HexDashCharsI)
      [] p = "gemini"     -> HasPrefix(u, "https://", "gemini.google.com", "/share/")
                             /\ MatchesClassPlus(u, HexCharsI)
      [] p = "perplexity" -> HasPrefix(u, "https://", "www.perplexity.ai", "/search/")
                             /\ MatchesClassPlus(u, WordDashChars)

----------------------------------------------------------------------------
(* The /api/parse-conversation handler, in its fetch version               *)
(* (api/parse-conversation.ts) and its Puppeteer version.                  *)

HandlerVariants == {"api", "puppeteer"}

Methods == {"OPTIONS", "GET", "POST"}

\* req.body without a url (or with an empty one).
NoUrl == [scheme |-> "", host |-> "", path |-> "", id |-> <<>>, tail |-> <<>>]

\* Strings that are not absolute URLs: a bare host name.
MalformedUrls == {[scheme |-> "", host |-> h, path |-> "", id |-> <<>>, tail |-> <<>>] :
                     h \in {"chatgpt.com", "example.com"}}

RequestUrls == Urls \cup MalformedUrls \cup {NoUrl}

\* req.body: the parsed body, or undefined when the request has none.
RequestBodies == {"object", "undefined"}

\* new URL(url) does not throw.
IsAbsoluteUrl(u) == u.scheme # ""

\* The pages a fetch of the URL may return.
FetchedDocs ==
    { [title |-> Absent, h1 |-> Absent, elements |-> <<>>],
      [title |-> <<"ChatGPT">>, h1 |-> Absent,
       elements |-> <<[roleAttr |-> "user", text |-> BlankText, codes |-> <<>>]>>],
      [title |-> <<" ", "ChatGPT", " ", "-", " ", "T", " ">>, h1 |-> Absent,
       elements |-> <<[roleAttr |-> "user", text |-> MessyText, codes |-> <<>>]>>],
      [title |-> Absent, h1 |-> <<" ", "T", " ">>,
       elements |-> <<[roleAttr |-> "user", text |-> MessyText, codes |-> <<>>],
                      [roleAttr |-> "assistant", text |-> MessyText, codes |-> <<>>]>>] }

ErrMethodNotAllowed == "Method not allowed"
ErrUrlRequired == "URL is required"
ErrInvalidUrl == "Invalid URL. Please provide a ChatGPT conversation URL."
ErrExtractFailed == "Failed to extract conversation content. The page may be private, require authentication, or have a changed structure."
ErrFailedToParse == "Failed to parse conversation: "
ErrFailedToFetch == "Failed to fetch"

\* res.status(status).json(body) / .end(); error is the parts of body.error.
Response(status, success, conversation, error) ==
    [status |-> status, success |-> success, conversation |-> conversation, error |-> error]

\* The catch block of the handler, for an Error with the given message.
CatchResponse(variant, message) ==
    IF variant = "puppeteer" /\ message = ErrNoMessages
    THEN Response(400, FALSE, NoConversation, <<ErrExtractFailed>>)
    ELSE Response(500, FALSE, NoConversation, <<ErrFailedToParse, message>>)

\* The response after the page was fetched: parse it, 200 with the Conversation
\* or the catch block.
ParseResponse(variant, doc) ==
    LET r == ParseConversationFromHtml(variant, doc)
    IN IF r.ok THEN Response(200, TRUE, r.conversation, <<>>)
       ELSE CatchResponse(variant, r.error)

\* The URL test of the handler.
PassesHandlerValidation(u) == Includes(u, "chatgpt.com") \/ Includes(u, "chat.openai.com")

Respond(r) ==
    /\ hresponses' = Append(hresponses, r)
    /\ hphase' = "responded"

\* if (req.method === 'OPTIONS') return res.status(200).end()
HandlerPreflight ==
    /\ hphase = "received"
    /\ hmethod = "OPTIONS"
    /\ Respond(Response(200, FALSE, NoConversation, <<>>))
    /\ UNCHANGED <<hvariant, hmethod, hurl, hbody, hnetwork>>
    /\ UNCHANGED exceptHandler

\* if (req.method !== 'POST') return res.status(405)
HandlerMethodNotAllowed ==
    /\ hphase = "received"
    /\ hmethod \notin {"OPTIONS", "POST"}
    /\ Respond(Response(405, FALSE, NoConversation, <<ErrMethodNotAllowed>>))
    /\ UNCHANGED <<hvariant, hmethod, hurl, hbody, hnetwork>>
    /\ UNCHANGED exceptHandler

\* const { url } = req.body, outside the try block: a TypeError when req.body is
\* undefined; the handler's promise rejects and the handler has sent nothing.
HandlerBodyThrows ==
    /\ hphase = "received"
    /\ hmethod = "POST"
    /\ hbody = "undefined"
    /\ hphase' = "threw"
    /\ UNCHANGED <<hvariant, hmethod, hurl, hbody, hnetwork, hresponses>>
    /\ UNCHANGED exceptHandler

\* if (!url) return res.status(400)
HandlerUrlRequired ==
    /\ hphase = "received"
    /\ hmethod = "POST"
    /\ hbody = "object"
    /\ hurl = NoUrl
    /\ Respond(Response(400, FALSE, NoConversation, <<ErrUrlRequired>>))
    /\ UNCHANGED <<hvariant, hmethod, hurl, hbody, hnetwork>>
    /\ UNCHANGED exceptHandler

\* The URL contains neither 'chatgpt.com' nor 'chat.openai.com': 400.
HandlerInvalidUrl ==
    /\ hphase = "received"
    /\ hmethod = "POST"
    /\ hurl # NoUrl
    /\ ~PassesHandlerValidation(hurl)
    /\ Respond(Response(400, FALSE, NoConversation, <<ErrInvalidUrl>>))
    /\ UNCHANGED <<hvariant, hmethod, hurl, hbody, hnetwork>>
    /\ UNCHANGED exceptHandler

\* The URL passed the test: fetch(url), or fetchWithPuppeteer(url), is called.
\* fetch of a string that is no absolute URL rejects without a request;
\* fetchWithPuppeteer launches the browser before it navigates.
HandlerFetch ==
    /\ hphase = "received"
    /\ hmethod = "POST"
    /\ hurl # NoUrl
    /\ PassesHandlerValidation(hurl)
    /\ hnetwork' = IF hvariant = "puppeteer" THEN Append(hnetwork, "launch")
                   ELSE IF IsAbsoluteUrl(hurl) THEN Append(hnetwork, "fetch")
                   ELSE hnetwork
    /\ hphase' = "fetching"
    /\ UNCHANGED <<hvariant, hmethod, hurl, hbody, hresponses>>
    /\ UNCHANGED exceptHandler

\* fetch rejected, the response was not ok, or fetchWithPuppeteer threw.
HandlerFetchFails ==
    /\ hphase = "fetching"
    /\ Respond(CatchResponse(hvariant, ErrFailedToFetch))
    /\ UNCHANGED <<hvariant, hmethod, hurl, hbody, hnetwork>>
    /\ UNCHANGED exceptHandler

\* The page arrived: parseConversationFromHtml(html, url) and the response.
HandlerParses ==
    /\ hphase = "fetching"
    /\ IsAbsoluteUrl(hurl)
    /\ \E doc \in FetchedDocs : Respond(ParseResponse(hvariant, doc))
    /\ UNCHANGED <<hvariant, hmethod, hurl, hbody, hnetwork>>
    /\ UNCHANGED exceptHandler

----------------------------------------------------------------------------
(* The client: App.handleExport and ApiService.parseConversation.  The     *)
(* request ApiService sends is served by the handler above.                *)

ErrApiUnavailable == "API server not available. Make sure to run \"vercel dev\" in another terminal to start the local API server. See instructions below for setup."
ErrInvalidResponse == "Invalid response from API"
ErrParsePrefix == "Parse Error: "
ErrDemoNotice == "Using demo export to show functionality:"
ErrApiReady == "The parsing API is ready but needs to be started locally."

DemoTitle == <<"Demo:", " ", "Understanding", " ", "React", " ", "Hooks">>

\* ChatGPTParser.createDemoConversation(url): four fixed messages that come
\* from no page (src 0).
DemoMessages ==
    << [src |-> 0, role |-> "user",
        text |-> <<Run("Hello! Can you help me understand how React hooks work?", 1)>>],
       [src |-> 0, role |-> "assistant",
        text |-> <<Run("Of course! React hooks are functions ...", 1)>>],
       [src |-> 0, role |-> "user",
        text |-> <<Run("That's helpful! Can you explain useState and useEffect in more detail?", 1)>>],
       [src |-> 0, role |-> "assistant",
        text |-> <<Run("Absolutely! Let me break down these two essential hooks: ...", 1)>>] >>

CreateDemoConversation(url) ==
    [title |-> DemoTitle, platform |-> "chatgpt", messages |-> DemoMessages,
     messageCount |-> Len(DemoMessages)]

ApiNoOutcome == [ok |-> FALSE, error |-> <<>>, conversation |-> NoConversation]

\* error.message.includes('fetch')
MentionsFetch(parts) == ErrFailedToFetch \in Range(parts)

\* The catch block of ApiService.parseConversation.
ApiThrown(parts) ==
    [ok |-> FALSE,
     error |-> IF MentionsFetch(parts) THEN <<ErrApiUnavailable>> ELSE parts,
     conversation |-> NoConversation]

\* ApiService.parseConversation once the response r arrived.
ApiOutcome(r) ==
    IF r.status \notin 200..299 THEN ApiThrown(r.error)
    ELSE IF ~r.success \/ r.conversation = NoConversation
         THEN ApiThrown(IF r.error # <<>> THEN r.error ELSE <<ErrInvalidResponse>>)
    ELSE [ok |-> TRUE, error |-> <<>>, conversation |-> r.conversation]

\* handleExport up to its first request: setIsExporting(true),
\* setExportError(null), then ApiService.parseConversation(url) posts the url.
ExportStart ==
    /\ ephase = "idle"
    /\ isExporting' = TRUE
    /\ exportError' = <<>>
    /\ ephase' = "parsing"
    /\ UNCHANGED <<eurl, eparsed, generated, downloads>>
    /\ UNCHANGED exceptExport

\* The POST reaches the handler.
ApiRequestArrives ==
    /\ ephase = "parsing"
    /\ hphase = "idle"
    /\ hmethod' = "POST"
    /\ hurl' = eurl
    /\ hphase' = "received"
    /\ UNCHANGED <<hvariant, hbody, hnetwork, hresponses>>
    /\ UNCHANGED <<orchVars, extractVars, exportVars, browserVars, rankVars, rulesVars, detectVars, genVars, contentVars, formVars>>

\* fetch rejects: no server answers.
ApiRequestFails ==
    /\ ephase = "parsing"
    /\ hphase = "idle"
    /\ eparsed' = ApiThrown(<<ErrFailedToFetch>>)
    /\ ephase' = "parsed"
    /\ UNCHANGED <<eurl, isExporting, exportError, generated, downloads>>
    /\ UNCHANGED exceptExport

\* The response of the handler arrives at ApiService.parseConversation.
ApiResponseArrives ==
    /\ ephase = "parsing"
    /\ hphase = "responded"
    /\ eparsed' = ApiOutcome(hresponses[Len(hresponses)])
    /\ ephase' = "parsed"
    /\ UNCHANGED <<eurl, isExporting, exportError, generated, downloads>>
    /\ UNCHANGED exceptExport

\* The rest of handleExport when parseConversation returned: generate,
\* download, and in the finally block setIsExporting(false).
ExportParsed ==
    /\ ephase = "parsed"
    /\ eparsed.ok
    /\ generated' = Append(generated, eparsed.conversation)
    /\ downloads' = Append(downloads, eparsed.conversation.title)
    /\ isExporting' = FALSE
    /\ ephase' = "ended"
    /\ UNCHANGED <<eurl, exportError, eparsed>>
    /\ UNCHANGED exceptExport

\* The rest of handleExport when parseConversation threw: the inner catch sets
\* exportError and takes the demo conversation, which is generated and
\* downloaded; the finally block sets isExporting to false.
ExportDemoFallback ==
    /\ ephase = "parsed"
    /\ ~eparsed.ok
    /\ exportError' = IF ErrApiUnavailable \in Range(eparsed.error)
                      THEN <<ErrApiReady>>
                      ELSE <<ErrParsePrefix>> \o eparsed.error \o <<ErrDemoNotice>>
    /\ generated' = Append(generated, CreateDemoConversation(eurl))
    /\ downloads' = Append(downloads, CreateDemoConversation(eurl).title)
    /\ isExporting' = FALSE
    /\ ephase' = "ended"
    /\ UNCHANGED <<eurl, eparsed>>
    /\ UNCHANGED exceptExport

----------------------------------------------------------------------------
(* fetchWithPuppeteer, statement by statement.  Every await of a browser   *)
(* or page operation may reject.                                           *)

MaxArticles == 2

MaxWaitTime == 20000
CheckInterval == 2000
ExpandSelectorCount == 6

\* A rejection in the outer try block: the catch block rethrows, the finally
\* block follows.
ThrowToFinally ==
    /\ bpending' = "throw"
    /\ bpc' = "finally"

\* browser = await puppeteer.launch(...)
Launch ==
    /\ bpc = "launch"
    /\ browser' = "open"
    /\ bpc' = "newPage"
    /\ UNCHANGED <<bdev, bi, previousMessageCount, stableCount, bselector, bcaught,
                   bpending, boutcome, bchecks, bfiles>>
    /\ UNCHANGED exceptBrowser

\* puppeteer.launch rejects: browser stays undefined.
LaunchFails ==
    /\ bpc = "launch"
    /\ ThrowToFinally
    /\ UNCHANGED <<browser, bdev, bi, previousMessageCount, stableCount, bselector,
                   bcaught, boutcome, bchecks, bfiles>>
    /\ UNCHANGED exceptBrowser

\* browser.newPage(), page.setUserAgent, page.setViewport
NewPage ==
    /\ bpc = "newPage"
    /\ bpc' = "goto"
    /\ UNCHANGED <<browser, bdev, bi, previousMessageCount, stableCount, bselector,
                   bcaught, bpending, boutcome, bchecks, bfiles>>
    /\ UNCHANGED exceptBrowser

\* page.goto(url, {waitUntil: 'networkidle0', timeout: 30000})
Goto ==
    /\ bpc = "goto"
    /\ bpc' = "waitForSelector"
    /\ UNCHANGED <<browser, bdev, bi, previousMessageCount, stableCount, bselector,
                   bcaught, bpending, boutcome, bchecks, bfiles>>
    /\ UNCHANGED exceptBrowser

\* An await outside the inner try blocks rejects: newPage, the navigation (error
\* or timeout), a scroll, page.content().
PageOperationFails ==
    /\ bpc \in {"newPage", "goto", "settle", "finalScroll", "content"}
    /\ ThrowToFinally
    /\ UNCHANGED <<browser, bdev, bi, previousMessageCount, stableCount, bselector,
                   bcaught, boutcome, bchecks, bfiles>>
    /\ UNCHANGED exceptBrowser

\* page.waitForSelector found an element: the stabilisation loop starts.
WaitForSelectorFound ==
    /\ bpc = "waitForSelector"
    /\ previousMessageCount' = 0
    /\ stableCount' = 0
    /\ bi' = 0
    /\ bchecks' = <<0>>
    /\ bpc' = "poll"
    /\ UNCHANGED <<browser, bdev, bselector, bcaught, bpending, boutcome, bfiles>>
    /\ UNCHANGED exceptBrowser

\* page.waitForSelector timed out, or a count in the loop rejected: the catch
\* (selectorError) block, then the statements after it.
WaitForSelectorFails ==
    /\ bpc \in {"waitForSelector", "poll"}
    /\ bcaught' = bcaught \cup {"selector"}
    /\ bpc' = "settle"
    /\ UNCHANGED <<browser, bdev, bi, previousMessageCount, stableCount, bselector,
                   bpending, boutcome, bchecks, bfiles>>
    /\ UNCHANGED exceptBrowser

\* The last three elements of a sequence.
LastThree(s) == IF Len(s) <= 3 THEN s ELSE SubSeq(s, Len(s) - 2, Len(s))

\* A loop that does not reset the stability counter when the count changed.
PollCheck_NoReset ==
    /\ bpc = "poll"
    /\ bi < MaxWaitTime \div CheckInterval
    /\ \E currentMessages \in 0..MaxArticles :
          /\ bchecks' = LastThree(Append(bchecks, currentMessages))
          /\ IF currentMessages = previousMessageCount
             THEN /\ stableCount' = stableCount + 1
                  /\ previousMessageCount' = previousMessageCount
                  /\ IF stableCount + 1 >= 2
                     THEN bi' = bi /\ bpc' = "settle"
                     ELSE /\ bi' = bi + 1
                          /\ bpc' = IF bi + 1 < MaxWaitTime \div CheckInterval
                                    THEN "poll" ELSE "settle"
             ELSE /\ stableCount' = stableCount
                  /\ previousMessageCount' = currentMessages
                  /\ bi' = bi + 1
                  /\ bpc' = IF bi + 1 < MaxWaitTime \div CheckInterval
                            THEN "poll" ELSE "settle"
    /\ UNCHANGED <<browser, bdev, bselector, bcaught, bpending, boutcome, bfiles>>
    /\ UNCHANGED exceptBrowser

\* One iteration of the stabilisation loop.
PollCheck ==
    /\ bpc = "poll"
    /\ bi < MaxWaitTime \div CheckInterval
    /\ \E currentMessages \in 0..MaxArticles :
          /\ bchecks' = LastThree(Append(bchecks, currentMessages))
          /\ IF currentMessages = previousMessageCount
             THEN /\ stableCount' = stableCount + 1
                  /\ previousMessageCount' = previousMessageCount
                  /\ IF stableCount + 1 >= 2
                     THEN bi' = bi /\ bpc' = "settle"
                     ELSE /\ bi' = bi + 1
                          /\ bpc' = IF bi + 1 < MaxWaitTime \div CheckInterval
                                    THEN "poll" ELSE "settle"
             ELSE /\ stableCount' = 0
                  /\ previousMessageCount' = currentMessages
                  /\ bi' = bi + 1
                  /\ bpc' = IF bi + 1 < MaxWaitTime \div CheckInterval
                            THEN "poll" ELSE "settle"
    /\ UNCHANGED <<browser, bdev, bselector, bcaught, bpending, boutcome, bfiles>>
    /\ UNCHANGED exceptBrowser

\* The 5 s wait, the scroll to the bottom, the 3 s wait.
Settle ==
    /\ bpc = "settle"
    /\ bselector' = 1
    /\ bpc' = "expand"
    /\ UNCHANGED <<browser, bdev, bi, previousMessageCount, stableCount, bcaught, bpending,
                   boutcome, bchecks, bfiles>>
    /\ UNCHANGED exceptBrowser

\* One expand selector: page.$$(selector) and a click on every button found.
\* A failing click and a failing selector are caught where they happen.
ExpandSelector ==
    /\ bpc = "expand"
    /\ bselector <= ExpandSelectorCount
    /\ \E caught \in {{}, {"click"}, {"expandSelector"}} : bcaught' = bcaught \cup caught
    /\ bselector' = bselector + 1
    /\ UNCHANGED <<bpc, browser, bdev, bi, previousMessageCount, stableCount, bpending,
                   boutcome, bchecks, bfiles>>
    /\ UNCHANGED exceptBrowser

\* The page.evaluate that clicks the "..." elements, and the 3 s wait; when it
\* rejects the catch (expandError) block swallows the error.
ExpandEvaluate ==
    /\ bpc = "expand"
    /\ bselector > ExpandSelectorCount
    /\ \E caught \in {{}, {"expand"}} : bcaught' = bcaught \cup caught
    /\ bpc' = "finalScroll"
    /\ UNCHANGED <<browser, bdev, bi, previousMessageCount, stableCount, bselector,
                   bpending, boutcome, bchecks, bfiles>>
    /\ UNCHANGED exceptBrowser

\* The final scroll and the 2 s wait.
FinalScroll ==
    /\ bpc = "finalScroll"
    /\ bpc' = "content"
    /\ UNCHANGED <<browser, bdev, bi, previousMessageCount, stableCount, bselector,
                   bcaught, bpending, boutcome, bchecks, bfiles>>
    /\ UNCHANGED exceptBrowser

\* The page page.content() returned, as a file of the working directory.
DebugFile == [name |-> "debug-chatgpt-<timestamp>.html", content |-> "html"]

\* html = await page.content().  In development fs.writeFileSync(filepath,
\* html) writes the page to a debug file; when the write throws, the catch
\* (saveError) block swallows the error.  Then return html.
Content ==
    /\ bpc = "content"
    /\ IF bdev
       THEN \/ bfiles' = Append(bfiles, DebugFile) /\ bcaught' = bcaught
            \/ bfiles' = bfiles /\ bcaught' = bcaught \cup {"save"}
       ELSE bfiles' = bfiles /\ bcaught' = bcaught
    /\ bpending' = "return"
    /\ bpc' = "finally"
    /\ UNCHANGED <<browser, bdev, bi, previousMessageCount, stableCount, bselector,
                   boutcome, bchecks>>
    /\ UNCHANGED exceptBrowser

\* A finally block that closes the browser only after return html.
Finally_CloseAfterReturnOnly ==
    /\ bpc = "finally"
    /\ browser' = IF browser = "open" /\ bpending = "return" THEN "closed" ELSE browser
    /\ boutcome' = IF bpending = "return" THEN "html" ELSE "thrown"
    /\ bpc' = "ended"
    /\ UNCHANGED <<bdev, bi, previousMessageCount, stableCount, bselector, bcaught,
                   bpending, bchecks, bfiles>>
    /\ UNCHANGED exceptBrowser

\* finally { if (browser) await browser.close() }, then the call ends with the
\* html or with the error.
Finally ==
    /\ bpc = "finally"
    /\ browser' = IF browser = "open" THEN "closed" ELSE browser
    /\ boutcome' = IF bpending = "return" THEN "html" ELSE "thrown"
    /\ bpc' = "ended"
    /\ UNCHANGED <<bdev, bi, previousMessageCount, stableCount, bselector, bcaught,
                   bpending, bchecks, bfiles>>
    /\ UNCHANGED exceptBrowser

----------------------------------------------------------------------------
(* StrategyOptimizer: the outcomes recorded for the strategies of one       *)
(* platform and selectOptimalStrategy.  speed and costEfficiency are in     *)
(* tenths (0 .. 10 for 0.0 .. 1.0).                                         *)

MaxRecords == 10

ScoreLevels == {0, 10}

\* The strategies with metrics, in the order of metrics.strategies.
RankedStrategies == <<"fast-html", "ai-extraction">>

Total(m) == m.successes + m.failures

\* 100 * Total(m) * score, for score = successRate * 0.5 + speed * 0.3 +
\* costEfficiency * 0.2 and successRate = successes / (successes + failures).
ScoreNum(m) ==
    IF Total(m) = 0 THEN 3 * m.speed + 2 * m.costEfficiency
    ELSE 50 * m.successes + (3 * m.speed + 2 * m.costEfficiency) * Total(m)

ScoreDen(m) == IF Total(m) = 0 THEN 1 ELSE Total(m)

\* b.score - a.score < 0 for the comparator (a, b) => b.score - a.score
ScoresHigher(a, b) == ScoreNum(a) * ScoreDen(b) > ScoreNum(b) * ScoreDen(a)

\* Array.prototype.sort is stable: x, which came after the elements of sorted,
\* goes before those it outscores only.
RECURSIVE InsertByScore(_, _)
InsertByScore(sorted, x) ==
    IF sorted = <<>> THEN <<x>>
    ELSE IF ScoresHigher(x, sorted[Len(sorted)])
         THEN InsertByScore(SubSeq(sorted, 1, Len(sorted) - 1), x) \o <<sorted[Len(sorted)]>>
    ELSE Append(sorted, x)

\* scored.sort((a, b) => b.score - a.score)
RECURSIVE SortByScore(_)
SortByScore(list) ==
    IF list = <<>> THEN <<>>
    ELSE InsertByScore(SortByScore(SubSeq(list, 1, Len(list) - 1)), list[Len(list)])

\* The names of the strategies in ranked order; element 1 is what
\* selectOptimalStrategy returns.
Rank(stats) == [i \in 1..Len(stats) |-> SortByScore(stats)[i].name]

\* recordSuccess(platform, strategy.name)
RecordSuccess ==
    /\ \E i \in 1..Len(rstats) :
          /\ Total(rstats[i]) < MaxRecords
          /\ rstats' = [rstats EXCEPT ![i].successes = @ + 1]
    /\ rranked' = <<>>
    /\ UNCHANGED exceptRank

\* recordFailure(platform, strategy.name, error)
RecordFailure ==
    /\ \E i \in 1..Len(rstats) :
          /\ Total(rstats[i]) < MaxRecords
          /\ rstats' = [rstats EXCEPT ![i].failures = @ + 1]
    /\ rranked' = <<>>
    /\ UNCHANGED exceptRank

\* selectOptimalStrategy(platform)
SelectOptimalStrategy ==
    /\ rranked = <<>>
    /\ rranked' = Rank(rstats)
    /\ UNCHANGED rstats
    /\ UNCHANGED exceptRank

----------------------------------------------------------------------------
(* CommunityRulesManager: the rule registry.  confidence is in tenths.     *)

MaxRules == 3
MaxFetched == 2

ConfidenceThreshold == 8

RulePlatforms == {"chatgpt", "claude"}

\* A ParsingRule: its platform, confidence, verified flag and lastUpdated.
ParsingRules == [platform : RulePlatforms, confidence : {8, 9, 10}, verified : BOOLEAN,
                 lastUpdated : 1..2]

NoRule == [platform |-> "none", confidence |-> 0, verified |-> FALSE, lastUpdated |-> 0]

RulesHeld == Len(rules["chatgpt"]) + Len(rules["claude"])

\* A filter that looks at the verified flag only.
Acceptable_VerifiedOnly(rule) == rule.verified

\* rule.verified && rule.confidence > 0.8
Acceptable(rule) == rule.verified /\ rule.confidence > ConfidenceThreshold

\* addRule(rule): the rule is appended to the rules of its platform if it is
\* acceptable, and dropped without an error otherwise.
AddTo(held, rule) ==
    IF Acceptable(rule) THEN [held EXCEPT ![rule.platform] = Append(@, rule)] ELSE held

\* updateRules: for (const rule of latestRules)
\*   if (rule.verified && rule.confidence > 0.8) this.addRule(rule)
RECURSIVE AddFetched(_, _)
AddFetched(held, latestRules) ==
    IF latestRules = <<>> THEN held
    ELSE AddFetched(IF Acceptable(Head(latestRules)) THEN AddTo(held, Head(latestRules)) ELSE held,
                    Tail(latestRules))

\* A direct call of addRule.
AddRule ==
    /\ RulesHeld < MaxRules
    /\ \E rule \in ParsingRules :
          /\ rules' = AddTo(rules, rule)
          /\ dropped' = IF rules' = rules THEN 1 ELSE 0
    /\ bestFor' = "none"
    /\ best' = NoRule
    /\ UNCHANGED exceptRules

\* updateRules(): the rules fetched from /api/parsing-rules are filtered and
\* added; when the fetch rejects nothing changes.
UpdateRules ==
    /\ RulesHeld + MaxFetched <= MaxRules
    /\ \E latestRules \in SeqsUpTo(ParsingRules, MaxFetched) :
          /\ rules' = AddFetched(rules, latestRules)
          /\ dropped' = Len(latestRules) + Len(rules["chatgpt"]) + Len(rules["claude"])
                            - Len(rules'["chatgpt"]) - Len(rules'["claude"])
    /\ bestFor' = "none"
    /\ best' = NoRule
    /\ UNCHANGED exceptRules

\* platformRules.filter(r => r.verified)
VerifiedOf(platformRules) == SelectSeq(platformRules, LAMBDA r : r.verified)

\* .sort((a, b) => b.confidence - a.confidence)[0] || null: the sort is stable,
\* so element 0 is the first rule of the list that no rule of the list exceeds.
FirstOfHighestConfidence(list) ==
    IF list = <<>> THEN NoRule
    ELSE list[CHOOSE i \in 1..Len(list) :
                 /\ \A j \in 1..Len(list) : list[j].confidence <= list[i].confidence
                 /\ \A j \in 1..(i - 1) : list[j].confidence < list[i].confidence]

\* getBestRule(platform)
GetBestRule ==
    /\ bestFor = "none"
    /\ \E platform \in RulePlatforms :
          /\ bestFor' = platform
          /\ best' = FirstOfHighestConfidence(VerifiedOf(rules[platform]))
    /\ UNCHANGED <<rules, dropped>>
    /\ UNCHANGED exceptRules

----------------------------------------------------------------------------
(* validateChatURL, detectPlatform and extractChatId of the client         *)
(* (utils/validators).  The only state the functions could touch is the    *)
(* lastIndex property of the four RegExp objects of PLATFORMS.             *)

MaxDetectLen == 1

\* Whitespace around the url, removed by trim().
Paddings == {"", " "}

\* The urls handed to the functions; example.com stands for every host that
\* no pattern names.
DetectUrls == {u \in RequestUrls : /\ u.host # "chat.openai.com"
                                   /\ u.tail = <<>>
                                   /\ Len(u.id) <= MaxDetectLen}

\* The urls that are also handed over with whitespace around them.
PaddedUrls == {u \in DetectUrls : u.scheme = "" \/ HasPrefix(u, "https://", "chatgpt.com", "/share/")}

DetectInputs == {[raw |-> u, padding |-> ""] : u \in DetectUrls}
                \cup {[raw |-> u, padding |-> " "] : u \in PaddedUrls}

\* url.trim()
TrimmedUrl(input) == input.raw

\* The length of the url, in tokens of the model.
UrlLength(u) == 3 + Len(Rest(u))

\* A RegExp literal starts with lastIndex 0.
FreshLastIndex == [p \in Range(PlatformNames) |-> 0]

\* Object.values(PLATFORMS).map(p => p.name)
PlatformDisplayNames == <<"ChatGPT", "Claude", "Gemini", "Perplexity">>

ErrInvalidChatUrl == "Please enter a valid shared chat URL"
ErrUnsupportedPlatform == "This platform is not yet supported"

\* A suggestion: its fixed text and the names interpolated into it.
Suggestion(text, names) == [text |-> text, names |-> names]

\* { isValid: false, error: ERROR_MESSAGES.INVALID_URL }
Invalid(suggestions) ==
    [isValid |-> FALSE, platform |-> "none", chatId |-> <<>>,
     error |-> ErrInvalidChatUrl, suggestions |-> suggestions]

\* { isValid: true, platform, chatId }
Valid(platform, chatId) ==
    [isValid |-> TRUE, platform |-> platform, chatId |-> chatId,
     error |-> "", suggestions |-> <<>>]

\* { isValid: false, error: ERROR_MESSAGES.UNSUPPORTED_PLATFORM, suggestions: [...] }
Unsupported ==
    [isValid |-> FALSE, platform |-> "none", chatId |-> <<>>,
     error |-> ErrUnsupportedPlatform,
     suggestions |-> <<Suggestion("Supported platforms: ", PlatformDisplayNames),
                       Suggestion("Make sure you're using a shared chat link", <<>>),
                       Suggestion("Check that the URL format matches the platform's sharing format",
                                  <<>>)>>]

\* A pattern with the g flag run through exec: the search starts at lastIndex,
\* a match moves lastIndex to its end, a failure resets it to 0.
MatchPattern_GlobalExec(p, u, li) ==
    LET matched == li = 0 /\ PlatformPattern(p, u)
    IN  [matched |-> matched, lastIndex |-> IF matched THEN UrlLength(u) ELSE 0]

\* trimmedUrl.match(config.pattern): the patterns have no g or y flag, so
\* the search starts at 0 whatever lastIndex is, and lastIndex is not written.
MatchPattern(p, u, li) ==
    [matched |-> PlatformPattern(p, u), lastIndex |-> li]

\* for (const [platform, config] of Object.entries(PLATFORMS)): the first
\* pattern that matches decides; match[1] is the id.
RECURSIVE ValidateFrom(_, _, _)
ValidateFrom(i, u, li) ==
    IF i > Len(PlatformNames) THEN [validation |-> Unsupported, lastIndex |-> li]
    ELSE LET p == PlatformNames[i]
             m == MatchPattern(p, u, li[p])
             after == [li EXCEPT ![p] = m.lastIndex]
         IN  IF m.matched THEN [validation |-> Valid(p, Rest(u)), lastIndex |-> after]
             ELSE ValidateFrom(i + 1, u, after)

\* validateChatURL(url), run with the patterns in state li.
Validation(input, li) ==
    IF input.raw = NoUrl /\ input.padding = ""
        THEN [validation |-> Invalid(<<>>), lastIndex |-> li]
    ELSE IF TrimmedUrl(input) = NoUrl
        THEN [validation |-> Invalid(<<>>), lastIndex |-> li]
    ELSE IF ~IsAbsoluteUrl(TrimmedUrl(input))
        THEN [validation |->
                 Invalid(<<Suggestion("Make sure the URL starts with https://", <<>>),
                           Suggestion("Check that the URL is complete and properly formatted",
                                      <<>>)>>),
              lastIndex |-> li]
    ELSE ValidateFrom(1, TrimmedUrl(input), li)

\* What each of the three functions returns of the validation.
ReturnedBy(call, validation) ==
    CASE call = "validateChatURL" -> validation
      [] call = "detectPlatform"  -> [platform |-> validation.platform]
      [] call = "extractChatId"   -> [chatId |-> validation.chatId]

\* PlatformDetector.detect(url): the url is tested as given, without trim();
\* the platform is returned or Error('Unsupported platform') is thrown.  The
\* Error has a message and nothing else.
DetectorOutcome(input) ==
    LET platform == IF input.padding = "" THEN Detect(input.raw) ELSE "none"
    IN  [platform |-> platform,
         thrown |-> IF platform = "none" THEN "Unsupported platform" ELSE "",
         names |-> <<>>]

\* What a call of fn returns, and the state it leaves the patterns of
\* PLATFORMS in.  The patterns of PlatformDetector.detect are literals of
\* their own, made anew by each call.
Outcome(fn, input, li) ==
    IF fn = "PlatformDetector.detect"
        THEN [returned |-> DetectorOutcome(input), lastIndex |-> li]
    ELSE LET r == Validation(input, li)
         IN  [returned |-> ReturnedBy(fn, r.validation), lastIndex |-> r.lastIndex]

Call(fn) ==
    \E input \in DetectInputs :
        /\ dinput' = input
        /\ dcall' = fn
        /\ dreturned' = Outcome(fn, input, lastIndex).returned
        /\ lastIndex' = Outcome(fn, input, lastIndex).lastIndex
        /\ dprev' = dinput.raw.host

ValidateChatURL ==
    /\ Call("validateChatURL")
    /\ UNCHANGED exceptDetect

DetectPlatform ==
    /\ Call("detectPlatform")
    /\ UNCHANGED exceptDetect

ExtractChatId ==
    /\ Call("extractChatId")
    /\ UNCHANGED exceptDetect

PlatformDetectorDetect ==
    /\ Call("PlatformDetector.detect")
    /\ UNCHANGED exceptDetect

----------------------------------------------------------------------------
(* JSONGenerator and CSVGenerator (services/exportGenerators), and the     *)
(* JSON.stringify / JSON.parse they rest on.  A string is the sequence of  *)
(* its characters; a run of characters none of which is special to JSON or *)
(* CSV may stand as one token.                                             *)

MaxTextLen == 2
MaxExportMessages == 1

\* The characters of a message text: a plain one and the three special to CSV.
TextChars == {"a", ",", "\"", "\n"}

MessageTexts == SeqsUpTo(TextChars, MaxTextLen)

\* Titles with the characters JSON escapes: a" and \n (a backslash and an n).
Titles == {<<"a", "\"">>, <<"\\", "n">>}

\* The values of an option: left out, or false.
OptionValues == {"undefined", "false"}

\* The decimal digit of a small number.
Digit(n) == <<"0", "1", "2", "3", "4", "5", "6", "7", "8", "9">>[n + 1]

\* JavaScript values that are not objects or arrays.
JsString(chars) == [kind |-> "string", chars |-> chars, num |-> 0]
JsDate(time) == [kind |-> "Date", chars |-> <<>>, num |-> time]
JsNumber(n) == [kind |-> "number", chars |-> <<>>, num |-> n]
JsUndefined == [kind |-> "undefined", chars |-> <<>>, num |-> 0]
JsNull == [kind |-> "null", chars |-> <<>>, num |-> 0]

\* An optional array, and an optional ConversationMetadata.
NoArray == [defined |-> FALSE, items |-> <<>>]
NoMetadata == [defined |-> FALSE, platform |-> JsUndefined, extractedAt |-> JsUndefined,
               messageCount |-> JsUndefined]

\* interface Artifact: a code artifact without a language.
CodeArtifact(content) ==
    [type |-> JsString(<<"code">>), content |-> JsString(content), language |-> JsUndefined]

\* interface Message.  The turns alternate; the assistant's messages carry
\* their text as a code artifact, the user's have no artifacts array.
ExportMessage(i, role, text) ==
    [id |-> JsString(<<"msg_", Digit(i)>>),
     role |-> JsString(<<role>>),
     content |-> [text |-> JsString(text),
                  artifacts |-> IF role = "assistant"
                                THEN [defined |-> TRUE, items |-> <<CodeArtifact(text)>>]
                                ELSE NoArray],
     timestamp |-> JsDate(i),
     metadata |-> [timestamp |-> JsDate(i)]]

RoleAt(firstRole, i) ==
    IF i % 2 = 1 THEN firstRole
    ELSE IF firstRole = "user" THEN "assistant" ELSE "user"

\* interface Conversation
ExportConversation(title, firstRole, texts) ==
    [id |-> JsString(<<"conv_1">>),
     title |-> JsString(title),
     platform |-> JsString(<<"chatgpt">>),
     createdAt |-> JsDate(0),
     updatedAt |-> JsDate(0),
     messages |-> [i \in 1..Len(texts) |-> ExportMessage(i, RoleAt(firstRole, i), texts[i])],
     metadata |-> [defined |-> TRUE, platform |-> JsString(<<"chatgpt">>),
                   extractedAt |-> JsDate(0), messageCount |-> JsNumber(Len(texts))]]

ExportConversations ==
    {ExportConversation(title, firstRole, texts) :
        title \in Titles, firstRole \in {"user", "assistant"},
        texts \in SeqsUpTo(MessageTexts, MaxExportMessages)}

\* const { includeX = true } = options
OptionOrTrue(value) == value # "false"

\* JSON.stringify of a string: the literal between the quotes.
RECURSIVE JsonEscape(_)
JsonEscape(chars) ==
    IF chars = <<>> THEN <<>>
    ELSE (CASE Head(chars) = "\"" -> <<"\\", "\"">>
            [] Head(chars) = "\\" -> <<"\\", "\\">>
            [] Head(chars) = "\n" -> <<"\\", "n">>
            [] OTHER -> <<Head(chars)>>) \o JsonEscape(Tail(chars))

\* JSON.parse of a string literal.
RECURSIVE JsonUnescape(_)
JsonUnescape(literal) ==
    IF literal = <<>> THEN <<>>
    ELSE IF Head(literal) = "\\"
        THEN <<IF literal[2] = "n" THEN "\n" ELSE literal[2]>>
             \o JsonUnescape(SubSeq(literal, 3, Len(literal)))
    ELSE <<Head(literal)>> \o JsonUnescape(Tail(literal))

\* Date.prototype.toISOString, which Date.prototype.toJSON returns.
ToISOString(time) == <<"1970-01-01T00:00:00.00", Digit(time), "Z">>

\* The JSON a value is written as; a property whose value is undefined is
\* left out.
JsonString(literal) == [json |-> "string", literal |-> literal, num |-> 0]
JsonNumber(n) == [json |-> "number", literal |-> <<>>, num |-> n]
JsonNull == [json |-> "null", literal |-> <<>>, num |-> 0]
JsonOmitted == [json |-> "omitted", literal |-> <<>>, num |-> 0]

StringifyValue(v) ==
    CASE v.kind = "string"    -> JsonString(JsonEscape(v.chars))
      [] v.kind = "Date"      -> JsonString(JsonEscape(ToISOString(v.num)))
      [] v.kind = "number"    -> JsonNumber(v.num)
      [] v.kind = "null"      -> JsonNull
      [] v.kind = "undefined" -> JsonOmitted

\* JSON.parse without a reviver: a string stays a string, a property that
\* is not there reads as undefined.
ParseValue(j) ==
    CASE j.json = "string"  -> JsString(JsonUnescape(j.literal))
      [] j.json = "number"  -> JsNumber(j.num)
      [] j.json = "null"    -> JsNull
      [] j.json = "omitted" -> JsUndefined

\* The same, property by property, for the shape of a Conversation.
OverArtifact(Leaf(_), a) ==
    [type |-> Leaf(a.type), content |-> Leaf(a.content), language |-> Leaf(a.language)]

OverArray(Leaf(_), array) ==
    [defined |-> array.defined,
     items |-> [i \in 1..Len(array.items) |-> OverArtifact(Leaf, array.items[i])]]

OverMessage(Leaf(_), m) ==
    [id |-> Leaf(m.id),
     role |-> Leaf(m.role),
     content |-> [text |-> Leaf(m.content.text),
                  artifacts |-> OverArray(Leaf, m.content.artifacts)],
     timestamp |-> Leaf(m.timestamp),
     metadata |-> [timestamp |-> Leaf(m.metadata.timestamp)]]

OverMetadata(Leaf(_), md) ==
    [defined |-> md.defined, platform |-> Leaf(md.platform),
     extractedAt |-> Leaf(md.extractedAt), messageCount |-> Leaf(md.messageCount)]

OverConversation(Leaf(_), c) ==
    [id |-> Leaf(c.id),
     title |-> Leaf(c.title),
     platform |-> Leaf(c.platform),
     createdAt |-> Leaf(c.createdAt),
     updatedAt |-> Leaf(c.updatedAt),
     messages |-> [i \in 1..Len(c.messages) |-> OverMessage(Leaf, c.messages[i])],
     metadata |-> OverMetadata(Leaf, c.metadata)]

JsonStringify(data) == OverConversation(StringifyValue, data)

JsonParse(document) == OverConversation(ParseValue, document)

\* JSONGenerator.generate
JsonData(conversation, options) ==
    [conversation EXCEPT !.metadata = IF OptionOrTrue(options.includeMetadata)
                                      THEN conversation.metadata ELSE NoMetadata]

JSONGenerate ==
    /\ gphase = "input"
    /\ gphase' = "json"
    /\ jsonOutput' = <<JsonStringify(JsonData(gconversation, goptions))>>
    /\ UNCHANGED <<gconversation, goptions, jsonParsed, csvRows, csvOutput>>
    /\ UNCHANGED exceptGen

\* JSON.parse(output)
JSONParse ==
    /\ gphase = "json"
    /\ gphase' = "parsed"
    /\ jsonParsed' = <<JsonParse(jsonOutput[1])>>
    /\ UNCHANGED <<gconversation, goptions, jsonOutput, csvRows, csvOutput>>
    /\ UNCHANGED exceptGen

IncludesAny(text, chars) == \E i \in 1..Len(text) : text[i] \in chars

\* text.replace(/"/g, '""')
RECURSIVE DoubleQuotes(_)
DoubleQuotes(text) ==
    IF text = <<>> THEN <<>>
    ELSE (IF Head(text) = "\"" THEN <<"\"", "\"">> ELSE <<Head(text)>>)
         \o DoubleQuotes(Tail(text))

\* An escapeCSV that wraps the text in quotes and leaves its quotes single.
EscapeCSV_QuotesKeptSingle(text) ==
    IF IncludesAny(text, {",", "\"", "\n"}) THEN <<"\"">> \o text \o <<"\"">> ELSE text

\* CSVGenerator.escapeCSV
EscapeCSV(text) ==
    IF IncludesAny(text, {",", "\"", "\n"})
    THEN <<"\"">> \o DoubleQuotes(text) \o <<"\"">>
    ELSE text

\* format(message.timestamp, 'yyyy-MM-dd HH:mm:ss')
FormatTimestamp(date) == <<"1970-01-01 00:00:0", Digit(date.num)>>

CsvHeaders(includeTimestamps) ==
    <<<<"Role">>, <<"Content">>>> \o (IF includeTimestamps THEN <<<<"Timestamp">>>> ELSE <<>>)

CsvRow(message, includeTimestamps) ==
    <<EscapeCSV(message.role.chars), EscapeCSV(message.content.text.chars)>>
    \o (IF includeTimestamps THEN <<EscapeCSV(FormatTimestamp(message.timestamp))>> ELSE <<>>)

\* row.join(',') + '\n'
RECURSIVE JoinRow(_)
JoinRow(row) ==
    IF Len(row) = 1 THEN row[1] \o <<"\n">>
    ELSE row[1] \o <<",">> \o JoinRow(Tail(row))

RECURSIVE JoinRows(_)
JoinRows(rows) == IF rows = <<>> THEN <<>> ELSE JoinRow(Head(rows)) \o JoinRows(Tail(rows))

CsvRows(conversation, options) ==
    LET includeTimestamps == OptionOrTrue(options.includeTimestamps)
    IN  <<CsvHeaders(includeTimestamps)>>
        \o [i \in 1..Len(conversation.messages) |->
               CsvRow(conversation.messages[i], includeTimestamps)]

\* CSVGenerator.generate
CSVGenerate ==
    /\ gphase = "input"
    /\ gphase' = "csv"
    /\ csvRows' = CsvRows(gconversation, goptions)
    /\ csvOutput' = JoinRows(csvRows')
    /\ UNCHANGED <<gconversation, goptions, jsonOutput, jsonParsed>>
    /\ UNCHANGED exceptGen

(* The export form: handleUrlChange, handleUrlBlur and handleSubmit of      *)
(* ExportForm, and App.handleExport, which the form calls as onExport.      *)

MaxExports == 2
MaxEvents == 4

\* The texts typed into the URL field.
FormInputs == {i \in DetectInputs : i.raw.host \in {"", "chatgpt.com", "example.com"}}

\* urlValidation === null; urlValidation?.isValid is then not true.
NullValidation ==
    [isValid |-> FALSE, platform |-> "none", chatId |-> <<>>, error |-> "null",
     suggestions |-> <<>>]

\* url.trim()
TrimmedInput(input) == [raw |-> input.raw, padding |-> ""]

\* validateChatURL(url.trim())
ValidateTrimmed(input) == Validation(TrimmedInput(input), FreshLastIndex).validation

\* exportError === null
NoError == "null"
ErrParseFallback == "Parse Error / Production-Ready API Available: demo export"
ErrExportFailed == "Export failed"

\* The events kept for reference: the last MaxEvents of them.
Logged(event) ==
    IF Len(fevents) < MaxEvents THEN Append(fevents, event)
    ELSE Append(Tail(fevents), event)

\* The URL field is enabled: disabled={isLoading}.
InputEnabled == ~isLoading

\* A submit button that stays enabled during an export.
SubmitEnabled_IgnoresLoading == urlValidation.isValid

\* The submit button is enabled: isFormValid = urlValidation?.isValid &&
\* !isLoading, disabled={!isFormValid}.  A form whose submit button is disabled
\* is not submitted, by a click or by the Enter key.
SubmitEnabled == urlValidation.isValid /\ ~isLoading

\* handleUrlChange without the reset of the validation state.
HandleUrlChange_KeepsValidation ==
    /\ InputEnabled
    /\ \E newUrl \in FormInputs \ {furl} : furl' = newUrl
    /\ fevents' = Logged("change")
    /\ UNCHANGED <<urlValidation, hasUrlBeenValidated, isLoading, ferror, inflight, exported>>
    /\ UNCHANGED exceptForm

HandleUrlChange ==
    /\ InputEnabled
    /\ \E newUrl \in FormInputs \ {furl} : furl' = newUrl
    /\ IF hasUrlBeenValidated
       THEN urlValidation' = NullValidation /\ hasUrlBeenValidated' = FALSE
       ELSE UNCHANGED <<urlValidation, hasUrlBeenValidated>>
    /\ fevents' = Logged("change")
    /\ UNCHANGED <<isLoading, ferror, inflight, exported>>
    /\ UNCHANGED exceptForm

HandleUrlBlur ==
    /\ IF TrimmedInput(furl).raw # NoUrl
       THEN urlValidation' = ValidateTrimmed(furl) /\ hasUrlBeenValidated' = TRUE
       ELSE UNCHANGED <<urlValidation, hasUrlBeenValidated>>
    /\ fevents' = Logged("blur")
    /\ UNCHANGED <<furl, isLoading, ferror, inflight, exported>>
    /\ UNCHANGED exceptForm

\* handleSubmit, and in it the start of handleExport: setIsExporting(true),
\* setExportError(null), and the run waits for ApiService.parseConversation.
HandleSubmit ==
    /\ SubmitEnabled
    /\ Len(exported) < MaxExports
    /\ fevents' = Logged("submit")
    /\ IF TrimmedInput(furl).raw = NoUrl
       THEN UNCHANGED <<urlValidation, hasUrlBeenValidated, isLoading, ferror, inflight, exported>>
       ELSE LET validation == IF hasUrlBeenValidated THEN urlValidation
                              ELSE ValidateTrimmed(furl)
            IN  /\ urlValidation' = validation
                /\ hasUrlBeenValidated' = TRUE
                /\ IF validation.isValid
                   THEN /\ exported' = Append(exported, TrimmedInput(furl))
                        /\ inflight' = Append(inflight, [url |-> TrimmedInput(furl),
                                                         at |-> "parsing"])
                        /\ isLoading' = TRUE
                        /\ ferror' = NoError
                   ELSE UNCHANGED <<isLoading, ferror, inflight, exported>>
    /\ UNCHANGED furl
    /\ UNCHANGED exceptForm

\* inflight without its i-th run.
Without(i) == SubSeq(inflight, 1, i - 1) \o SubSeq(inflight, i + 1, Len(inflight))

\* ApiService.parseConversation(url) resolved.
ParseResolves ==
    /\ \E i \in 1..Len(inflight) :
          /\ inflight[i].at = "parsing"
          /\ inflight' = [inflight EXCEPT ![i].at = "generating"]
    /\ fevents' = Logged("parsed")
    /\ UNCHANGED <<furl, urlValidation, hasUrlBeenValidated, isLoading, ferror, exported>>
    /\ UNCHANGED exceptForm

\* It rejected: the inner catch sets exportError and takes the demo conversation.
ParseRejects ==
    /\ \E i \in 1..Len(inflight) :
          /\ inflight[i].at = "parsing"
          /\ inflight' = [inflight EXCEPT ![i].at = "generating"]
    /\ ferror' = ErrParseFallback
    /\ fevents' = Logged("fallback")
    /\ UNCHANGED <<furl, urlValidation, hasUrlBeenValidated, isLoading, exported>>
    /\ UNCHANGED exceptForm

\* generator.generate and downloadFile returned; finally: setIsExporting(false).
GenerateAndDownload ==
    /\ \E i \in 1..Len(inflight) :
          /\ inflight[i].at = "generating"
          /\ inflight' = Without(i)
    /\ isLoading' = FALSE
    /\ fevents' = Logged("downloaded")
    /\ UNCHANGED <<furl, urlValidation, hasUrlBeenValidated, ferror, exported>>
    /\ UNCHANGED exceptForm

\* The outer catch without the finally block.
ExportThrows_NoFinally ==
    /\ \E i \in 1..Len(inflight) : inflight' = Without(i)
    /\ ferror' = ErrExportFailed
    /\ fevents' = Logged("threw")
    /\ UNCHANGED <<furl, urlValidation, hasUrlBeenValidated, isLoading, exported>>
    /\ UNCHANGED exceptForm

\* A dynamic import, the generator or the download threw: the outer catch sets
\* exportError; finally: setIsExporting(false).
ExportThrows ==
    /\ \E i \in 1..Len(inflight) : inflight' = Without(i)
    /\ ferror' = ErrExportFailed
    /\ isLoading' = FALSE
    /\ fevents' = Logged("threw")
    /\ UNCHANGED <<furl, urlValidation, hasUrlBeenValidated, exported>>
    /\ UNCHANGED exceptForm

IdleOrch ==
    /\ ourl = [scheme |-> "https://", host |-> "example.com", path |-> "/chat/",
               id |-> <<>>, tail |-> <<>>]
    /\ ophase = "Idle"
    /\ oplatform = "none"
    /\ order = <<>>
    /\ attempts = <<>>
    /\ running = {}
    /\ outcomeLog = <<>>
    /\ oresult = NoResult
    /\ thrown = 0
    /\ errors = <<>>
    /\ failure = <<>>

IdleExtract ==
    /\ xvariant = "api"
    /\ xdoc = [title |-> Absent, h1 |-> Absent, elements |-> <<>>]
    /\ xphase = "idle"
    /\ xresult = NoOutcome

IdleHandler ==
    /\ hvariant = "api"
    /\ hmethod = "POST"
    /\ hurl = NoUrl
    /\ hbody = "object"
    /\ hphase = "idle"
    /\ hnetwork = <<>>
    /\ hresponses = <<>>

IdleExport ==
    /\ eurl = NoUrl
    /\ ephase = "idle"
    /\ isExporting = FALSE
    /\ exportError = <<>>
    /\ eparsed = ApiNoOutcome
    /\ generated = <<>>
    /\ downloads = <<>>

IdleBrowser ==
    /\ bpc = "idle"
    /\ browser = "undefined"
    /\ bdev = FALSE
    /\ bi = 0
    /\ previousMessageCount = 0
    /\ stableCount = 0
    /\ bselector = 0
    /\ bcaught = {}
    /\ bpending = "none"
    /\ boutcome = "none"
    /\ bchecks = <<>>
    /\ bfiles = <<>>

IdleRank ==
    /\ rstats = <<>>
    /\ rranked = <<>>

IdleRules ==
    /\ rules = [p \in RulePlatforms |-> <<>>]
    /\ bestFor = "none"
    /\ best = NoRule
    /\ dropped = 0

IdleDetect ==
    /\ dinput = [raw |-> NoUrl, padding |-> ""]
    /\ dcall = "none"
    /\ dreturned = Invalid(<<>>)
    /\ dprev = ""
    /\ lastIndex = FreshLastIndex

IdleGen ==
    /\ gconversation = ExportConversation(<<>>, "user", <<>>)
    /\ goptions = [includeMetadata |-> "undefined", includeTimestamps |-> "undefined"]
    /\ gphase = "input"
    /\ jsonOutput = <<>>
    /\ jsonParsed = <<>>
    /\ csvRows = <<>>
    /\ csvOutput = <<>>

IdleContent ==
    /\ cvariant = "api"
    /\ celement = [roleAttr |-> "none", text |-> <<>>, codes |-> <<>>]
    /\ cphase = "input"
    /\ crole = "none"
    /\ ccontent = NoContent

IdleForm ==
    /\ furl = [raw |-> NoUrl, padding |-> ""]
    /\ urlValidation = NullValidation
    /\ hasUrlBeenValidated = FALSE
    /\ isLoading = FALSE
    /\ ferror = NoError
    /\ inflight = <<>>
    /\ exported = <<>>
    /\ fevents = <<>>

InitHandler ==
    /\ hvariant \in HandlerVariants
    /\ hmethod \in Methods
    /\ hbody \in RequestBodies
    /\ hurl \in (IF hbody = "object" THEN RequestUrls ELSE {NoUrl})
    /\ hphase = "received"
    /\ hnetwork = <<>>
    /\ hresponses = <<>>
    /\ IdleOrch /\ IdleExtract /\ IdleExport /\ IdleBrowser /\ IdleRank /\ IdleRules /\ IdleDetect /\ IdleGen /\ IdleContent /\ IdleForm

NextHandler ==
    \/ HandlerPreflight
    \/ HandlerMethodNotAllowed
    \/ HandlerBodyThrows
    \/ HandlerUrlRequired
    \/ HandlerInvalidUrl
    \/ HandlerFetch
    \/ HandlerFetchFails
    \/ HandlerParses

SpecHandler == InitHandler /\ [][NextHandler]_vars

InitExport ==
    /\ eurl \in RequestUrls
    /\ ephase = "idle"
    /\ isExporting = FALSE
    /\ exportError \in {<<>>, <<ErrParsePrefix, ErrInvalidUrl, ErrDemoNotice>>}
    /\ eparsed = ApiNoOutcome
    /\ generated = <<>>
    /\ downloads = <<>>
    /\ hvariant \in HandlerVariants
    /\ hmethod = "POST"
    /\ hurl = NoUrl
    /\ hbody = "object"
    /\ hphase = "idle"
    /\ hnetwork = <<>>
    /\ hresponses = <<>>
    /\ IdleOrch /\ IdleExtract /\ IdleBrowser /\ IdleRank /\ IdleRules /\ IdleDetect /\ IdleGen /\ IdleContent /\ IdleForm

NextExport ==
    \/ ExportStart
    \/ ApiRequestArrives
    \/ ApiRequestFails
    \/ HandlerUrlRequired
    \/ HandlerInvalidUrl
    \/ HandlerFetch
    \/ HandlerFetchFails
    \/ HandlerParses
    \/ ApiResponseArrives
    \/ ExportParsed
    \/ ExportDemoFallback

SpecExport == InitExport /\ [][NextExport]_vars

InitBrowser ==
    /\ bpc = "launch"
    /\ browser = "undefined"
    /\ bdev \in BOOLEAN
    /\ bi = 0
    /\ previousMessageCount = 0
    /\ stableCount = 0
    /\ bselector = 0
    /\ bcaught = {}
    /\ bpending = "none"
    /\ boutcome = "none"
    /\ bchecks = <<>>
    /\ bfiles = <<>>
    /\ IdleOrch /\ IdleExtract /\ IdleHandler /\ IdleExport /\ IdleRank /\ IdleRules /\ IdleDetect /\ IdleGen /\ IdleContent /\ IdleForm

NextBrowser ==
    \/ Launch
    \/ LaunchFails
    \/ NewPage
    \/ Goto
    \/ PageOperationFails
    \/ WaitForSelectorFound
    \/ WaitForSelectorFails
    \/ PollCheck
    \/ Settle
    \/ ExpandSelector
    \/ ExpandEvaluate
    \/ FinalScroll
    \/ Content
    \/ Finally

SpecBrowser == InitBrowser /\ [][NextBrowser]_vars

InitRank ==
    /\ \E order2 \in {RankedStrategies, <<RankedStrategies[2], RankedStrategies[1]>>} :
       \E speed, cost \in [1..2 -> ScoreLevels] :
          rstats = [i \in 1..2 |-> [name |-> order2[i], successes |-> 0, failures |-> 0,
                                    speed |-> speed[i], costEfficiency |-> cost[i]]]
    /\ rranked = <<>>
    /\ IdleOrch /\ IdleExtract /\ IdleHandler /\ IdleExport /\ IdleBrowser /\ IdleRules /\ IdleDetect /\ IdleGen /\ IdleContent /\ IdleForm

NextRank ==
    \/ RecordSuccess
    \/ RecordFailure
    \/ SelectOptimalStrategy

SpecRank == InitRank /\ [][NextRank]_vars

InitRules ==
    /\ rules = [p \in RulePlatforms |-> <<>>]
    /\ bestFor = "none"
    /\ best = NoRule
    /\ dropped = 0
    /\ IdleOrch /\ IdleExtract /\ IdleHandler /\ IdleExport /\ IdleBrowser /\ IdleRank /\ IdleDetect /\ IdleGen /\ IdleContent /\ IdleForm

NextRules ==
    \/ AddRule
    \/ UpdateRules
    \/ GetBestRule

SpecRules == InitRules /\ [][NextRules]_vars

InitDetect ==
    /\ dinput = [raw |-> NoUrl, padding |-> ""]
    /\ dcall = "none"
    /\ dreturned = Invalid(<<>>)
    /\ dprev = ""
    /\ lastIndex = FreshLastIndex
    /\ IdleOrch /\ IdleExtract /\ IdleHandler /\ IdleExport /\ IdleBrowser /\ IdleRank /\ IdleRules /\ IdleGen /\ IdleContent /\ IdleForm

NextDetect ==
    \/ ValidateChatURL
    \/ DetectPlatform
    \/ ExtractChatId
    \/ PlatformDetectorDetect

SpecDetect == InitDetect /\ [][NextDetect]_vars

InitGen ==
    /\ gconversation \in ExportConversations
    /\ goptions \in [includeMetadata : OptionValues, includeTimestamps : OptionValues]
    /\ gphase = "input"
    /\ jsonOutput = <<>>
    /\ jsonParsed = <<>>
    /\ csvRows = <<>>
    /\ csvOutput = <<>>
    /\ IdleOrch /\ IdleExtract /\ IdleHandler /\ IdleExport /\ IdleBrowser /\ IdleRank /\ IdleRules /\ IdleDetect /\ IdleContent /\ IdleForm

NextGen ==
    \/ JSONGenerate
    \/ JSONParse
    \/ CSVGenerate

SpecGen == InitGen /\ [][NextGen]_vars

InitContent ==
    /\ cvariant \in Variants
    /\ celement \in ContentElements
    /\ cphase = "input"
    /\ crole = "none"
    /\ ccontent = NoContent
    /\ IdleOrch /\ IdleExtract /\ IdleHandler /\ IdleExport /\ IdleBrowser /\ IdleRank /\ IdleRules /\ IdleDetect /\ IdleGen /\ IdleForm

NextContent ==
    \/ ExtractRole
    \/ ExtractContent

SpecContent == InitContent /\ [][NextContent]_vars

InitForm ==
    /\ furl = [raw |-> NoUrl, padding |-> ""]
    /\ urlValidation = NullValidation
    /\ hasUrlBeenValidated = FALSE
    /\ isLoading = FALSE
    /\ ferror \in {NoError, ErrExportFailed}
    /\ inflight = <<>>
    /\ exported = <<>>
    /\ fevents = <<>>
    /\ IdleOrch /\ IdleExtract /\ IdleHandler /\ IdleExport /\ IdleBrowser /\ IdleRank /\ IdleRules /\ IdleDetect /\ IdleGen /\ IdleContent

NextForm ==
    \/ HandleUrlChange
    \/ HandleUrlBlur
    \/ HandleSubmit
    \/ ParseResolves
    \/ ParseRejects
    \/ GenerateAndDownload
    \/ ExportThrows

SpecForm == InitForm /\ [][NextForm]_vars

InitExtract ==
    /\ xvariant \in Variants
    /\ xdoc \in Docs
    /\ xphase = "input"
    /\ xresult = NoOutcome
    /\ IdleOrch /\ IdleHandler /\ IdleExport /\ IdleBrowser /\ IdleRank /\ IdleRules /\ IdleDetect /\ IdleGen /\ IdleContent /\ IdleForm

NextExtract == ParseHtml

SpecExtract == InitExtract /\ [][NextExtract]_vars

InitOrch ==
    /\ ourl \in Urls
    /\ ophase = "Idle"
    /\ oplatform = "none"
    /\ order = <<>>
    /\ attempts = <<>>
    /\ running = {}
    /\ outcomeLog = <<>>
    /\ oresult = NoResult
    /\ thrown = 0
    /\ errors = <<>>
    /\ failure = <<>>
    /\ IdleExtract /\ IdleHandler /\ IdleExport /\ IdleBrowser /\ IdleRank /\ IdleRules /\ IdleDetect /\ IdleGen /\ IdleContent /\ IdleForm

NextOrch ==
    \/ ParseStart
    \/ AttemptResolves
    \/ AttemptThrows
    \/ AttemptTimesOut
    \/ AbandonedSettles

SpecOrch == InitOrch /\ [][NextOrch]_vars


----------------------------------------------------------------------------
(* Properties of IntelligentParser.parse, checked under SpecOrch *)

AttemptedStrategies == [i \in 1..Len(attempts) |-> attempts[i].strategy]

\* The ranked order: the optimal strategy, then the default list without it.
RankedOrder(optimal) == <<optimal>> \o SelectSeq(Strategies, LAMBDA s : s # optimal)

\* C1: when every strategy fails, parse ends in AllStrategiesFailed exactly once
\* and has attempted every strategy exactly once, in ranked order: no strategy
\* twice, none skipped.
C1_ExhaustionEachStrategyOnce ==
    ophase = "AllStrategiesFailed" =>
        /\ thrown = 1
        /\ AttemptedStrategies = RankedOrder(order[1])

\* C2: at every moment at most one strategy's underlying operation is in
\* progress, also after an attempt ended through its timeout.
C2_AtMostOneOperationInProgress == Cardinality(running) <= 1

\* C7: once parse has run on a URL no platform pattern matches, the request is
\* in the unsupported-platform failure for good, and no strategy was ever
\* selected, started or recorded for it.
C7_UnsupportedIsImmediateAndTerminal ==
    (ophase # "Idle" /\ \A i \in 1..Len(DetectorPlatforms) : ~DetectorPattern(DetectorPlatforms[i], ourl))
        => /\ ophase = "Unsupported"
           /\ order = <<>>
           /\ attempts = <<>>
           /\ running = {}
           /\ outcomeLog = <<>>
           /\ oresult = NoResult
           /\ thrown = 0
           /\ errors = <<>>
           /\ failure = <<>>

C7_Witness == ophase = "Unsupported" /\ ourl.host = "example.com" /\ ourl.scheme = "https://"

\* C10: a failed attempt (threw, timed out, invalid result) ends the request only
\* when it was the last of the order; otherwise the next strategy of the order is
\* being tried.  The request succeeds with the first valid result, and nothing is
\* attempted after it.
C10_FailuresRecoveredLocally ==
    /\ \A i \in 1..Len(attempts) : attempts[i].strategy = order[i]
    /\ \A i \in 1..(Len(attempts) - 1) : attempts[i].outcome # "valid"
    /\ (ophase = "AllStrategiesFailed" =>
            /\ Len(attempts) = Len(order)
            /\ \A i \in 1..Len(attempts) : attempts[i].outcome # "valid"
            /\ oresult = NoResult)
    /\ (ophase = "Trying" =>
            /\ Len(attempts) < Len(order)
            /\ Current \in running
            /\ \A i \in 1..Len(attempts) : attempts[i].outcome # "valid")
    /\ (ophase = "Validated" =>
            /\ attempts[Len(attempts)].outcome = "valid"
            /\ ValidateResult(oresult)
            /\ thrown = 0
            /\ \A i \in running : i < Len(attempts))
    /\ (Len(attempts) > 0 => ophase \in {"Trying", "Validated", "AllStrategiesFailed"})

C10_Witness ==
    /\ ophase = "Validated"
    /\ Len(attempts) = 4
    /\ attempts[1].outcome = "threw"
    /\ attempts[2].outcome = "timeout"
    /\ attempts[3].outcome = "invalid"

\* C11: every finished attempt has exactly one recorded outcome, for its own
\* strategy, with succeeded = TRUE exactly when the attempt returned a validated
\* result (a refused result is recorded as a failure, like a rejection).
C11_OneOutcomePerAttempt ==
    /\ Len(outcomeLog) = Len(attempts)
    /\ \A i \in 1..Len(outcomeLog) :
          /\ outcomeLog[i].strategy = attempts[i].strategy
          /\ outcomeLog[i].succeeded = (attempts[i].outcome = "valid")

\* C12: the Error thrown when every strategy failed carries one reason for each
\* attempt, in the order of the attempts.
C12_FailureCarriesReasonPerAttempt ==
    ophase = "AllStrategiesFailed" =>
        /\ Len(failure) = Len(attempts)
        /\ \A i \in 1..Len(failure) : failure[i].strategy = attempts[i].strategy

\* The default priority as the specification lists it: static-markup,
\* structured-endpoint, rendered-DOM, community-rule, semantic-fallback.
StatedPriority == <<"fast-html", "api-discovery", "browser-render", "community-rules",
                    "ai-extraction">>

\* C13: the order of a request is the selected strategy followed by the other
\* strategies in the stated default priority, the selected one not repeated.
C13_OrderIsBestThenStatedPriority ==
    order # <<>> =>
        order = <<order[1]>> \o SelectSeq(StatedPriority, LAMBDA s : s # order[1])


----------------------------------------------------------------------------
(* Properties of the HTML parsers, checked under SpecExtract *)

ValidRoles == {"user", "assistant", "system"}

\* The visible (non-whitespace) characters of a text.
RECURSIVE VisibleLength(_)
VisibleLength(t) ==
    IF t = <<>> THEN 0
    ELSE (IF IsWs(Head(t)) THEN 0 ELSE TokenLen(Head(t).s) * Head(t).n) + VisibleLength(Tail(t))

ReturnedMessages == xresult.conversation.messages

C4_NoBlankMessage ==
    xphase = "done" =>
        /\ \A i \in 1..Len(ReturnedMessages) :
              /\ VisibleLength(ReturnedMessages[i].text) > 0
              /\ VisibleLength(xdoc.elements[ReturnedMessages[i].src].text) > 0
        /\ (\A j \in 1..Len(xdoc.elements) : VisibleLength(xdoc.elements[j].text) = 0) =>
              /\ ~xresult.ok
              /\ xresult.conversation = NoConversation
              /\ (xvariant \in {"api", "puppeteer"} => xresult.error = ErrNoMessages)

C4_Witness ==
    /\ xphase = "done"
    /\ xvariant = "api"
    /\ Len(xdoc.elements) = 2
    /\ xdoc.elements[1] = [roleAttr |-> "user", text |-> BlankText, codes |-> <<>>]
    /\ xdoc.elements[2] = [roleAttr |-> "assistant", text |-> EmptyText, codes |-> <<>>]
    /\ xresult.error = ErrNoMessages

\* C5: the messages returned come from distinct containers of the page, in the
\* order of the containers in the page, each with the visible text of its own
\* container.
C5_MessagesInSourceOrder ==
    xphase = "done" =>
        /\ \A i \in 1..Len(ReturnedMessages) :
              /\ ReturnedMessages[i].src \in 1..Len(xdoc.elements)
              /\ VisibleLength(ReturnedMessages[i].text)
                    = VisibleLength(xdoc.elements[ReturnedMessages[i].src].text)
        /\ \A i, j \in 1..Len(ReturnedMessages) :
              i < j => ReturnedMessages[i].src < ReturnedMessages[j].src

C5_Witness ==
    /\ xphase = "done"
    /\ xresult.ok
    /\ xvariant = "api"
    /\ Len(ReturnedMessages) = 2
    /\ ReturnedMessages[1].src = 1
    /\ ReturnedMessages[2].src = 2
    /\ xdoc.elements[1].text = ShortText
    /\ xdoc.elements[2].text = MessyText

\* C24: no message of a Conversation the rendered-DOM parser returns has a text
\* that contains one of the noise markers or is longer than the maximum.
C24_NoNoiseInRenderedMessages ==
    (xphase = "done" /\ xvariant = "puppeteer") =>
        \A i \in 1..Len(ReturnedMessages) : ~LooksLikeNoise(ReturnedMessages[i].text)

\* The first selector of the list that matches a container of the page, 0 when
\* none does.
FirstMatching(variant, doc) ==
    LET selectors == MessageSelectors(variant)
        matching == {i \in 1..Len(selectors) : Len(Select(doc, selectors[i])) > 0}
    IN  IF matching = {} THEN 0 ELSE CHOOSE i \in matching : \A j \in matching : i <= j

\* The containers the first matching selector matches.
ChosenContainers(variant, doc) ==
    IF FirstMatching(variant, doc) = 0 THEN {}
    ELSE {Select(doc, MessageSelectors(variant)[FirstMatching(variant, doc)])[k] :
            k \in 1..Len(Select(doc, MessageSelectors(variant)[FirstMatching(variant, doc)]))}

\* C30: every message comes from a container of the first selector of the list
\* that matches a container; when every container of that selector is
\* rejected the parse fails with 'No messages found', whatever the later
\* selectors match.
C30_ContainersFromFirstMatchingSelector ==
    (xphase = "done" /\ xvariant \in {"api", "puppeteer"}) =>
        /\ \A i \in 1..Len(ReturnedMessages) :
              ReturnedMessages[i].src \in ChosenContainers(xvariant, xdoc)
        /\ (\A k \in ChosenContainers(xvariant, xdoc) :
                ~KeepMessage(xvariant, ExtractMessageText(xvariant, xdoc.elements[k])))
              => /\ ~xresult.ok
                 /\ xresult.error = ErrNoMessages

C30_Witness ==
    /\ xphase = "done"
    /\ xvariant = "api"
    /\ Len(xdoc.elements) = 2
    /\ xdoc.elements[1] = [roleAttr |-> "user", text |-> BlankText, codes |-> <<>>]
    /\ xdoc.elements[2] = [roleAttr |-> "none", text |-> ShortText, codes |-> <<>>]
    /\ FirstMatching(xvariant, xdoc) = 1
    /\ xresult.error = ErrNoMessages

----------------------------------------------------------------------------
(* Properties of the handler, checked under SpecHandler *)

\* An absolute HTTPS URL that one of the four platform patterns matches in full.
IsSupportedHttpsUrl(u) ==
    /\ IsAbsoluteUrl(u)
    /\ u.scheme = "https://"
    /\ \E i \in 1..Len(PlatformNames) : PlatformPattern(PlatformNames[i], u)

\* C6: the handler starts network activity (a fetch, a browser launch) only for
\* an absolute HTTPS URL that matches one of the four platform patterns.
C6_NetworkOnlyForSupportedHttpsUrl ==
    hnetwork # <<>> => IsSupportedHttpsUrl(hurl)

\* C26: the handler sends exactly one response for every request: 200 for
\* OPTIONS, 405 for another method than POST, 400 for a missing url or a url
\* that is not a ChatGPT one, 200 with the conversation on success, 400 or 500
\* when fetching or parsing throws; it never ends without a response and never
\* sends two.
C26_ExactlyOneResponse ==
    /\ Len(hresponses) <= 1
    /\ hphase \in {"responded", "threw"} =>
          /\ Len(hresponses) = 1
          /\ hresponses[1].status =
                (CASE hmethod = "OPTIONS" -> 200
                   [] hmethod \notin {"OPTIONS", "POST"} -> 405
                   [] hmethod = "POST" /\ hurl = NoUrl -> 400
                   [] hmethod = "POST" /\ hurl # NoUrl /\ ~PassesHandlerValidation(hurl) -> 400
                   [] OTHER -> IF hresponses[1].success THEN 200
                               ELSE IF hresponses[1].status = 400 THEN 400 ELSE 500)
          /\ hresponses[1].success => hresponses[1].conversation # NoConversation

----------------------------------------------------------------------------
(* Properties of the export, checked under SpecExport *)

\* The Conversations the handler sent in a successful response.
ConversationsFromParsing ==
    {hresponses[i].conversation : i \in {j \in 1..Len(hresponses) : hresponses[j].success}}

\* C9: every Conversation handed to a generator is one the parsing layer
\* returned with success; when parsing failed nothing is generated in its place.
C9_OnlyParsedConversationsGenerated ==
    \A i \in 1..Len(generated) : generated[i] \in ConversationsFromParsing

----------------------------------------------------------------------------
(* Properties of fetchWithPuppeteer, checked under SpecBrowser *)

C21_NothingWrittenToDisk == bfiles = <<>>

MaxChecks == MaxWaitTime \div CheckInterval

----------------------------------------------------------------------------
(* Properties of StrategyOptimizer, checked under SpecRank *)

\* The position of a strategy in a ranking.
PositionIn(ranking, name) == CHOOSE i \in 1..Len(ranking) : ranking[i] = name

\* C14: when 10 successes are recorded for one strategy and 10 failures for
\* another, the ranking places the first before the second, whatever their speed
\* and cost efficiency and whatever their order in the list.
C14_TenSuccessesOutrankTenFailures ==
    \A a, b \in 1..Len(rstats) :
        (/\ rranked # <<>>
         /\ rstats[a].successes = 10 /\ rstats[a].failures = 0
         /\ rstats[b].successes = 0 /\ rstats[b].failures = 10)
        => PositionIn(rranked, rstats[a].name) < PositionIn(rranked, rstats[b].name)

----------------------------------------------------------------------------
(* Properties of CommunityRulesManager, checked under SpecRules *)

C16_BestIsHighestConfidenceThenNewest ==
    bestFor # "none" =>
        LET verifiedRules == {r \in Range(rules[bestFor]) : r.verified}
        IN IF verifiedRules = {} THEN best = NoRule
           ELSE /\ best \in verifiedRules
                /\ \A r \in verifiedRules :
                      \/ r.confidence < best.confidence
                      \/ r.confidence = best.confidence /\ r.lastUpdated <= best.lastUpdated

----------------------------------------------------------------------------
(* Claims about platform detection *)

NoPatternMatches(u) == \A i \in 1..Len(PlatformNames) : ~PlatformPattern(PlatformNames[i], u)

\* C17: platform detection is deterministic and free of side effects: whatever
\* was validated before, a call returns what the same call returns on the
\* freshly loaded module, and it leaves the patterns as they were.
C17_DetectionIsDeterministic ==
    dcall # "none" =>
        /\ dreturned = Outcome(dcall, dinput, FreshLastIndex).returned
        /\ lastIndex = FreshLastIndex

\* A chatgpt.com URL is detected as chatgpt right after a call about a
\* chatgpt.com URL.
C17_Witness ==
    /\ dcall = "detectPlatform"
    /\ dreturned.platform = "chatgpt"
    /\ dprev = "chatgpt.com"

\* C18: for a well-formed URL that matches no platform pattern, detection
\* fails with the unsupported-platform error, yields no platform and no chat
\* id, and the failure lists the names of all supported platforms.
C18_UnsupportedCarriesPlatformNames ==
    (dcall # "none" /\ IsAbsoluteUrl(TrimmedUrl(dinput)) /\ NoPatternMatches(TrimmedUrl(dinput))) =>
        CASE dcall = "validateChatURL" ->
                 /\ ~dreturned.isValid
                 /\ dreturned.error = ErrUnsupportedPlatform
                 /\ dreturned.platform = "none"
                 /\ dreturned.chatId = <<>>
                 /\ \E i \in 1..Len(dreturned.suggestions) :
                        dreturned.suggestions[i].names = PlatformDisplayNames
          [] dcall = "detectPlatform" -> dreturned.platform = "none"
          [] dcall = "extractChatId" -> dreturned.chatId = <<>>
          [] dcall = "PlatformDetector.detect" ->
                 /\ dreturned.thrown = "Unsupported platform"
                 /\ dreturned.platform = "none"
                 /\ dreturned.names = PlatformDisplayNames

----------------------------------------------------------------------------
(* Claims about the export generators *)

\* C19: parsing the output of JSONGenerator.generate gives back an object
\* equal to the conversation, field for field.
C19_JsonRoundTrips ==
    gphase = "parsed" => jsonParsed[1] = gconversation

QuoteCount(text) == Cardinality({i \in 1..Len(text) : text[i] = "\""})

\* Reading an emitted CSV field back: the enclosing quotes are dropped and
\* each pair of quotes inside them becomes one quote.
RECURSIVE HalveQuotes(_)
HalveQuotes(inner) ==
    IF inner = <<>> THEN <<>>
    ELSE IF Head(inner) = "\"" /\ Len(inner) >= 2 /\ inner[2] = "\""
        THEN <<"\"">> \o HalveQuotes(SubSeq(inner, 3, Len(inner)))
    ELSE <<Head(inner)>> \o HalveQuotes(Tail(inner))

UnescapeCsvField(field) ==
    IF Len(field) >= 2 /\ field[1] = "\"" /\ field[Len(field)] = "\""
    THEN HalveQuotes(SubSeq(field, 2, Len(field) - 1))
    ELSE field

EmittedAsCsvRequires(original, emitted) ==
    /\ IF IncludesAny(original, {",", "\"", "\n"})
       THEN /\ Len(emitted) = Len(original) + QuoteCount(original) + 2
            /\ emitted[1] = "\""
            /\ emitted[Len(emitted)] = "\""
       ELSE emitted = original
    /\ UnescapeCsvField(emitted) = original

\* C20: in the CSV output every role and text that contains a comma, a double
\* quote or a newline is wrapped in double quotes with its quotes doubled,
\* any other is emitted as it is, and reading the emitted field back gives
\* the original.
C20_CsvFieldsEscaped ==
    gphase = "csv" =>
        /\ Len(csvRows) = Len(gconversation.messages) + 1
        /\ csvOutput = JoinRows(csvRows)
        /\ \A i \in 1..Len(gconversation.messages) :
              /\ EmittedAsCsvRequires(gconversation.messages[i].role.chars, csvRows[i + 1][1])
              /\ EmittedAsCsvRequires(gconversation.messages[i].content.text.chars,
                                      csvRows[i + 1][2])

\* A message whose text is a comma followed by a double quote was exported.
C20_Witness ==
    /\ gphase = "csv"
    /\ Len(gconversation.messages) = 1
    /\ gconversation.messages[1].content.text.chars = <<",", "\"">>
    /\ csvRows[2][2] = <<"\"", ",", "\"", "\"", "\"">>

----------------------------------------------------------------------------
(* Claims about roles and code artifacts *)

\* C23: every code artifact has content longer than the minimal useful
\* threshold of 10 characters, and a message without a surviving artifact has
\* artifacts unset, not an empty list.
C23_NoShortCodeArtifact ==
    cphase = "content" =>
        /\ \A i \in 1..Len(ccontent.artifacts.items) :
              TextLength(ccontent.artifacts.items[i]) > MinCodeLen
        /\ ccontent.artifacts.defined = (ccontent.artifacts.items # <<>>)

\* C25: a container with a role attribute of user, assistant or system gets
\* that role; one without it gets user when its text is short and it holds no
\* code, assistant when its text is long or it holds code; the role is always
\* one of the three.  Short is below every length limit of the parsers, long
\* is at or above every one of them.
C25_RoleFromMarkerElseHeuristic ==
    cphase = "role" =>
        /\ crole \in {"user", "assistant", "system"}
        /\ celement.roleAttr # "none" => crole = celement.roleAttr
        /\ (/\ celement.roleAttr = "none"
            /\ TextLength(ElementText(celement)) < RoleHeuristicMaxLenApi
            /\ ~HtmlIncludesCode(celement)) => crole = "user"
        /\ (/\ celement.roleAttr = "none"
            /\ \/ TextLength(ElementText(celement)) >= RoleHeuristicMaxLenPuppeteer
               \/ celement.codes # <<>>) => crole = "assistant"

----------------------------------------------------------------------------
(* Properties of the export form, checked under SpecForm *)

\* C27: onExport is called only with the trimmed text of the URL field, and
\* only when validateChatURL finds that text valid; whenever
\* hasUrlBeenValidated is true the stored validation is the one of the text
\* now in the field.
C27_ExportOnlyOfValidatedCurrentUrl ==
    /\ [](hasUrlBeenValidated => urlValidation = ValidateTrimmed(furl))
    /\ [](~hasUrlBeenValidated => urlValidation = NullValidation)
    /\ [][Len(exported') > Len(exported) =>
            /\ exported'[Len(exported')] = TrimmedInput(furl)
            /\ ValidateTrimmed(furl).isValid]_vars
    /\ [](\A i \in 1..Len(exported) :
            exported[i].padding = "" /\ ValidateTrimmed(exported[i]).isValid)

\* An export of a url typed after another text had been validated.
C27_Witness ==
    /\ fevents = <<"blur", "change", "blur", "submit">>
    /\ Len(exported) = 1
    /\ furl.padding = " "
    /\ exported[1] = TrimmedInput(furl)

\* C28: at most one run of handleExport is in flight, and onExport is not
\* called while isLoading is true.
C28_NoSecondExportWhileLoading ==
    /\ [](Len(inflight) <= 1)
    /\ [](isLoading => ~SubmitEnabled)
    /\ [][Len(exported') > Len(exported) => ~isLoading]_vars

\* An export is in progress for a text that is valid, and the form cannot be
\* submitted.
C28_Witness ==
    /\ isLoading
    /\ Len(inflight) = 1
    /\ hasUrlBeenValidated
    /\ urlValidation.isValid
    /\ ~SubmitEnabled
    /\ Len(exported) = 2

\* C29: the start of handleExport sets isExporting to true and exportError to
\* null; the end of a run, whichever way it ends, sets isExporting to false;
\* isExporting is not true when no run is in flight.
C29_LoadingResetAtEnd ==
    /\ [][Len(exported') > Len(exported) => (isLoading' /\ ferror' = NoError)]_vars
    /\ [][Len(inflight') < Len(inflight) => ~isLoading']_vars
    /\ [](inflight = <<>> => ~isLoading)

\* A run that parsed, fell back to the demo conversation and then threw.
C29_Witness ==
    /\ fevents = <<"blur", "submit", "fallback", "threw">>
    /\ inflight = <<>>
    /\ ~isLoading
    /\ ferror = ErrExportFailed

====
